---- MODULE Spec2Model ----
(***************************************************************************)
(* Bidding tracker: the in-memory repository (MemoryRepo) guarded by one   *)
(* sync.RWMutex, and the BiddingService on top of it.                      *)
(*                                                                         *)
(* Callers are concurrent processes (one goroutine per request or test     *)
(* case).  Each call is split where the code can be interleaved with other *)
(* goroutines: between acquiring the mutex and running the critical        *)
(* section, and between the Store calls of BiddingService.PlaceBid.        *)
(*                                                                         *)
(* Seven specifications share the state: Spec (two callers of the service  *)
(* and of the Store), SpecFair (Spec under fair scheduling), SpecWinning   *)
(* (the winner scan on recorded sequences), SpecService (one caller, one   *)
(* call at a time), SpecStore (two callers of the Store, with              *)
(* RecordBidForItem's two map updates as separate steps), SpecRecord (one  *)
(* caller recording bids on two items) and SpecHTTP (one client of the     *)
(* HTTP handlers, with error values as wrap chains).                       *)
(*                                                                         *)
(* Amounts are float64 in the code.  The code never does arithmetic on     *)
(* them, it only compares them, so the model uses integers, which carry    *)
(* the same order; NaN, which is no amount of money and compares with      *)
(* nothing, is left out.  Timestamps are instants of one clock, integers   *)
(* too.  now is the clock's last reading: time.Now returns that or more.   *)
(***************************************************************************)
EXTENDS Integers, Sequences, FiniteSets, TLC

\* ------------------------------------------------------------------ bounds
\* Total number of calls (Store or service) the callers start.
MaxCalls == 2
\* Longest bid sequence the winner scan is checked on (SpecWinning).
MaxLen == 3

\* ----------------------------------------------------------------- domains
\* The concurrent callers (goroutines).
Procs == {"p1", "p2"}

\* The item identifiers of the model; "" is Go's empty string, item1 and item2
\* are items that main and the tests seed, itemX is the tests' identifier of
\* an item that was never added.
ItemIDs == {"", "item1", "item2", "itemX"}
\* The identifiers that callers of a service started by main supply: no item,
\* a seeded item, an item that was never added.
CallItemIDs == {"", "item1", "itemX"}
\* The identifiers that callers of a repository seeded by the tests supply:
\* no item and the two seeded items.
StoreItemIDs == {"", "item1", "item2"}
UserIDs == {"", "u1", "u2"}
\* Amounts that callers supply to PlaceBid.
Amounts == {-1, 0, 1, 2}
\* Timestamps that callers of RecordBidForItem (the tests) put in their bids.
Times == {1, 2}
\* The first item the repository is seeded with before requests are served
\* (main.prepopulateItems).
SeedItemID == "item1"
\* The identifiers of all the items that main.prepopulateItems adds.
SeededItemIDs == {"item1", "item2", "item3"}
\* The starting price of the items that AddItem is given afterwards.
Prices == {3}

\* ------------------------------------------------------------------ errors
\* An error is identified by the sentinel errors.Is finds in its chain.
NoError == "nil"
ErrItemNotFound == "ErrItemNotFound"
ErrNoBids == "ErrNoBids"
ErrUserNoBids == "ErrUserNoBids"
ErrInvalidBid == "ErrInvalidBid"
ErrBidTooLow == "ErrBidTooLow"

\* Where the wrapping itself matters (the HTTP boundary, which maps an error
\* to a status with errors.Is), an error value is the chain errors.Unwrap
\* walks: the messages, outermost first, the last one being the error that
\* errors.New created.  nil is the empty chain.
Nil == <<>>
errorsNew(text) == <<text>>

\* A faulty variant of Errorf: the error is formatted with %v, so the result
\* wraps nothing.
Errorf_Opaque(context, err) == <<context>>

\* fmt.Errorf with one %w verb: a new error that wraps err.
Errorf(context, err) == <<context>> \o err

\* errors.Is: some error of err's chain is target.
errorsIs(err, target) ==
    /\ target # Nil
    /\ \E k \in 1..Len(err) : SubSeq(err, k, Len(err)) = target

\* The sentinel values of package biddingerrors, by kind.
Sentinels == {ErrItemNotFound, ErrNoBids, ErrUserNoBids, ErrInvalidBid, ErrBidTooLow}
Sentinel(kind) == errorsNew(kind)

\* The kind of an error value: nil, the sentinel in its chain, or none of them.
ErrUnclassified == "unclassified"
KindOf(err) ==
    IF err = Nil
    THEN NoError
    ELSE IF \E k \in Sentinels : errorsIs(err, Sentinel(k))
         THEN CHOOSE k \in Sentinels : errorsIs(err, Sentinel(k))
         ELSE ErrUnclassified

\* -------------------------------------------------------------- data model
\* model.Bid{}: the zero value.
ZeroBid == [BidID |-> "", ItemID |-> "", UserID |-> "", Amount |-> 0, CreatedAt |-> 0]

\* model.Item{}: the zero value.
ZeroItem == [ItemID |-> "", Title |-> "", Description |-> "", StartingPrice |-> 0]

Bid(bidID, itemID, userID, amount, createdAt) ==
    [BidID |-> bidID, ItemID |-> itemID, UserID |-> userID,
     Amount |-> amount, CreatedAt |-> createdAt]

Item(itemID, price) ==
    [ItemID |-> itemID, Title |-> "title", Description |-> "description",
     StartingPrice |-> price]

\* The seeded item.
SeedItem == Item(SeedItemID, 1)

\* The bids that callers of RecordBidForItem (the tests) supply: any item, an
\* empty or a real bidder, a negative or a positive amount, any timestamp.
DirectBids ==
    {Bid("bid1", i, u, a, t) : i \in CallItemIDs, u \in {"", "u1"}, a \in {-1, 2}, t \in Times}

\* utils.GenerateID: a fresh identifier, the n-th one generated.
GenerateID(n) == "uuid" \o ToString(n)

\* time.Time.Before
Before(t, u) == t < u

\* ------------------------------------------------------------------- state
VARIABLES
    bids,       \* MemoryRepo.bids: itemID -> sequence of bids (a Go map)
    items,      \* MemoryRepo.items: itemID -> item
    userItems,  \* MemoryRepo.userItems: userID -> sequence of itemIDs
    mu,         \* MemoryRepo.mu: the writer that has claimed it (inside, or
                \* waiting for the readers to leave), the readers inside
    pc,         \* where each caller is in its call
    call,       \* each caller's current (or last) call: arguments and locals
    res,        \* what each caller's last call returned
    now,        \* the last reading of the system clock (time.Now)
    nextID,     \* how many identifiers utils.GenerateID has handed out
    calls,      \* how many calls have been started
    log         \* history: every successful RecordBidForItem, in lock order

vars == <<bids, items, userItems, mu, pc, call, res, now, nextID, calls, log>>
store == <<bids, items, userItems>>

\* The three maps of the MemoryRepo as one value.
repo == [bids |-> bids, items |-> items, userItems |-> userItems]

\* --------------------------------------------------------------- Go's maps
\* m[k] of a Go map: the zero value when k is absent.
Get(m, k, zero) == IF k \in DOMAIN m THEN m[k] ELSE zero

\* m[k] = v of a Go map.
Put(m, k, v) == [x \in DOMAIN m \cup {k} |-> IF x = k THEN v ELSE m[x]]

\* The elements of a slice.
Elems(s) == {s[k] : k \in 1..Len(s)}

\* --------------------------------------------------------------- the Store
\* Faulty variants of RecordBidForItem, used to show that the properties below
\* depend on it.  (1) The slice is replaced instead of appended to.
RecordBidForItem_Overwrite(r, bid) ==
    IF bid.ItemID \notin DOMAIN r.items
    THEN [repo |-> r, err |-> ErrItemNotFound]
    ELSE LET known == Get(r.userItems, bid.UserID, <<>>)
         IN  [repo |-> [r EXCEPT !.bids = Put(r.bids, bid.ItemID, <<bid>>),
                                 !.userItems =
                                     IF bid.ItemID \in Elems(known)
                                     THEN r.userItems
                                     ELSE Put(r.userItems, bid.UserID,
                                              Append(known, bid.ItemID))],
              err |-> NoError]

\* (2) The existence check is missing.
RecordBidForItem_NoCheck(r, bid) ==
    LET known == Get(r.userItems, bid.UserID, <<>>)
    IN  [repo |-> [r EXCEPT !.bids = Put(r.bids, bid.ItemID,
                                         Append(Get(r.bids, bid.ItemID, <<>>), bid)),
                            !.userItems =
                                IF bid.ItemID \in Elems(known)
                                THEN r.userItems
                                ELSE Put(r.userItems, bid.UserID,
                                         Append(known, bid.ItemID))],
         err |-> NoError]

\* (3) The bid is appended before the existence check.
RecordBidForItem_AppendFirst(r, bid) ==
    LET appended == Put(r.bids, bid.ItemID,
                        Append(Get(r.bids, bid.ItemID, <<>>), bid))
        known == Get(r.userItems, bid.UserID, <<>>)
    IN  IF bid.ItemID \notin DOMAIN r.items
        THEN [repo |-> [r EXCEPT !.bids = appended], err |-> ErrItemNotFound]
        ELSE [repo |-> [r EXCEPT !.bids = appended,
                                 !.userItems =
                                     IF bid.ItemID \in Elems(known)
                                     THEN r.userItems
                                     ELSE Put(r.userItems, bid.UserID,
                                              Append(known, bid.ItemID))],
              err |-> NoError]

\* (4) The bidder's item list is appended to without looking for the item.
RecordBidForItem_NoDedup(r, bid) ==
    IF bid.ItemID \notin DOMAIN r.items
    THEN [repo |-> r, err |-> ErrItemNotFound]
    ELSE [repo |-> [r EXCEPT !.bids = Put(r.bids, bid.ItemID,
                                          Append(Get(r.bids, bid.ItemID, <<>>), bid)),
                             !.userItems = Put(r.userItems, bid.UserID,
                                               Append(Get(r.userItems, bid.UserID, <<>>),
                                                      bid.ItemID))],
          err |-> NoError]

\* (5) A new item id is put at the front of the bidder's item list.
RecordBidForItem_Prepend(r, bid) ==
    IF bid.ItemID \notin DOMAIN r.items
    THEN [repo |-> r, err |-> ErrItemNotFound]
    ELSE LET appended == Put(r.bids, bid.ItemID,
                             Append(Get(r.bids, bid.ItemID, <<>>), bid))
             known == Get(r.userItems, bid.UserID, <<>>)
         IN  IF bid.ItemID \in Elems(known)
             THEN [repo |-> [r EXCEPT !.bids = appended], err |-> NoError]
             ELSE [repo |-> [r EXCEPT !.bids = appended,
                                      !.userItems = Put(r.userItems, bid.UserID,
                                                        <<bid.ItemID>> \o known)],
                   err |-> NoError]

\* (7) The bids map is rebuilt with the bid's item as its only key.
RecordBidForItem_DropsOthers(r, bid) ==
    IF bid.ItemID \notin DOMAIN r.items
    THEN [repo |-> r, err |-> ErrItemNotFound]
    ELSE LET appended == [i \in {bid.ItemID} |->
                            Append(Get(r.bids, bid.ItemID, <<>>), bid)]
             known == Get(r.userItems, bid.UserID, <<>>)
         IN  IF bid.ItemID \in Elems(known)
             THEN [repo |-> [r EXCEPT !.bids = appended], err |-> NoError]
             ELSE [repo |-> [r EXCEPT !.bids = appended,
                                      !.userItems = Put(r.userItems, bid.UserID,
                                                        Append(known, bid.ItemID))],
                   err |-> NoError]

\* (8) A bid whose id is already in the item's sequence is not appended again.
RecordBidForItem_Dedup(r, bid) ==
    IF bid.ItemID \notin DOMAIN r.items
    THEN [repo |-> r, err |-> ErrItemNotFound]
    ELSE LET found == Get(r.bids, bid.ItemID, <<>>)
             appended == IF \E k \in 1..Len(found) : found[k].BidID = bid.BidID
                         THEN r.bids
                         ELSE Put(r.bids, bid.ItemID, Append(found, bid))
             known == Get(r.userItems, bid.UserID, <<>>)
         IN  IF bid.ItemID \in Elems(known)
             THEN [repo |-> [r EXCEPT !.bids = appended], err |-> NoError]
             ELSE [repo |-> [r EXCEPT !.bids = appended,
                                      !.userItems = Put(r.userItems, bid.UserID,
                                                        Append(known, bid.ItemID))],
                   err |-> NoError]

\* (6) Bids without a bidder or of a non-positive amount are rejected.
RecordBidForItem_Validates(r, bid) ==
    IF bid.UserID = "" \/ bid.Amount <= 0
    THEN [repo |-> r, err |-> ErrInvalidBid]
    ELSE IF bid.ItemID \notin DOMAIN r.items
         THEN [repo |-> r, err |-> ErrItemNotFound]
         ELSE LET appended == Put(r.bids, bid.ItemID,
                                  Append(Get(r.bids, bid.ItemID, <<>>), bid))
                  known == Get(r.userItems, bid.UserID, <<>>)
              IN  IF bid.ItemID \in Elems(known)
                  THEN [repo |-> [r EXCEPT !.bids = appended], err |-> NoError]
                  ELSE [repo |-> [r EXCEPT !.bids = appended,
                                           !.userItems = Put(r.userItems, bid.UserID,
                                                             Append(known, bid.ItemID))],
                        err |-> NoError]

\* The body of MemoryRepo.RecordBidForItem, run under mu.Lock.
RecordBidForItem(r, bid) ==
    IF bid.ItemID \notin DOMAIN r.items
    THEN [repo |-> r, err |-> ErrItemNotFound]
    ELSE LET appended == Put(r.bids, bid.ItemID,
                             Append(Get(r.bids, bid.ItemID, <<>>), bid))
             known == Get(r.userItems, bid.UserID, <<>>)
         IN  IF bid.ItemID \in Elems(known)
             THEN [repo |-> [r EXCEPT !.bids = appended], err |-> NoError]
             ELSE [repo |-> [r EXCEPT !.bids = appended,
                                      !.userItems = Put(r.userItems, bid.UserID,
                                                        Append(known, bid.ItemID))],
                   err |-> NoError]

\* A faulty variant of GetBidsByItem: no bids is an empty result, not an error.
GetBidsByItem_EmptyOK(r, itemID) ==
    [bids |-> Get(r.bids, itemID, <<>>), err |-> NoError]

\* The body of MemoryRepo.GetBidsByItem, run under mu.RLock.
GetBidsByItem(r, itemID) ==
    LET found == Get(r.bids, itemID, <<>>)
    IN  IF itemID \notin DOMAIN r.bids \/ Len(found) = 0
        THEN [bids |-> <<>>, err |-> ErrNoBids]
        ELSE [bids |-> found, err |-> NoError]

\* A faulty variant of ScanWinning: a later bid of equal amount wins.
RECURSIVE ScanWinning_LastWins(_, _)
ScanWinning_LastWins(winning, rest) ==
    IF rest = <<>>
    THEN winning
    ELSE LET b == Head(rest)
         IN  ScanWinning_LastWins(IF b.Amount >= winning.Amount THEN b ELSE winning,
                                  Tail(rest))

\* The loop of MemoryRepo.GetWinningBid over bids[1:].
RECURSIVE ScanWinning(_, _)
ScanWinning(winning, rest) ==
    IF rest = <<>>
    THEN winning
    ELSE LET b == Head(rest)
         IN  ScanWinning(IF \/ b.Amount > winning.Amount
                            \/ /\ b.Amount = winning.Amount
                               /\ Before(b.CreatedAt, winning.CreatedAt)
                         THEN b
                         ELSE winning,
                         Tail(rest))

\* The body of MemoryRepo.GetWinningBid, run under mu.RLock.
GetWinningBid(r, itemID) ==
    LET found == Get(r.bids, itemID, <<>>)
    IN  IF itemID \notin DOMAIN r.bids \/ Len(found) = 0
        THEN [bid |-> ZeroBid, err |-> ErrNoBids]
        ELSE [bid |-> ScanWinning(Head(found), Tail(found)), err |-> NoError]

\* The loop of MemoryRepo.GetItemsByUser: the items of the ids that resolve.
RECURSIVE ResolveItems(_, _)
ResolveItems(r, itemIDs) ==
    IF itemIDs = <<>>
    THEN <<>>
    ELSE IF Head(itemIDs) \in DOMAIN r.items
         THEN <<r.items[Head(itemIDs)]>> \o ResolveItems(r, Tail(itemIDs))
         ELSE ResolveItems(r, Tail(itemIDs))

\* A faulty variant of GetItemsByUser: a bidder without items gets an empty
\* result, not an error.
GetItemsByUser_EmptyOK(r, userID) ==
    [items |-> ResolveItems(r, Get(r.userItems, userID, <<>>)), err |-> NoError]

\* The body of MemoryRepo.GetItemsByUser, run under mu.RLock.
GetItemsByUser(r, userID) ==
    LET itemIDs == Get(r.userItems, userID, <<>>)
    IN  IF userID \notin DOMAIN r.userItems \/ Len(itemIDs) = 0
        THEN [items |-> <<>>, err |-> ErrUserNoBids]
        ELSE [items |-> ResolveItems(r, itemIDs), err |-> NoError]

\* A faulty variant of AddItem: the item's bids are dropped with the old item.
AddItem_ResetBids(r, item) ==
    [r EXCEPT !.items = Put(r.items, item.ItemID, item),
              !.bids = Put(r.bids, item.ItemID, <<>>)]

\* Another faulty variant of AddItem: the new item replaces the whole map.
AddItem_Exclusive(r, item) ==
    [r EXCEPT !.items = [i \in {item.ItemID} |-> item]]

\* The body of MemoryRepo.AddItem, run under mu.Lock.
AddItem(r, item) == [r EXCEPT !.items = Put(r.items, item.ItemID, item)]

\* ------------------------------------------------------------- the service
\* A faulty variant of validateInput: a zero amount passes.
validateInput_ZeroPasses(itemID, userID, amount) ==
    IF itemID = "" \/ userID = ""
    THEN ErrInvalidBid
    ELSE IF amount < 0 THEN ErrInvalidBid ELSE NoError

\* BiddingService.validateBid, its checks of the arguments alone.
validateInput(itemID, userID, amount) ==
    IF itemID = "" \/ userID = ""
    THEN ErrInvalidBid
    ELSE IF amount <= 0 THEN ErrInvalidBid ELSE NoError

\* Faulty variants of validateWinning.  (1) An amount equal to the winner's
\* passes.
validateWinning_EqualPasses(amount, win) ==
    IF win.err = NoError
    THEN IF amount < win.bid.Amount THEN ErrBidTooLow ELSE NoError
    ELSE IF win.err # ErrNoBids THEN win.err ELSE NoError

\* (2) The winner is not looked at.
validateWinning_NoCheck(amount, win) ==
    IF win.err # NoError /\ win.err # ErrNoBids THEN win.err ELSE NoError

\* (3) ErrNoBids from the winner query is returned like any other error.
validateWinning_NoBidsRejects(amount, win) ==
    IF win.err = NoError
    THEN IF amount <= win.bid.Amount THEN ErrBidTooLow ELSE NoError
    ELSE win.err

\* BiddingService.validateBid, its check against what repo.GetWinningBid
\* returned (win: the bid and the error).
validateWinning(amount, win) ==
    IF win.err = NoError
    THEN IF amount <= win.bid.Amount THEN ErrBidTooLow ELSE NoError
    ELSE IF win.err # ErrNoBids THEN win.err ELSE NoError

\* ----------------------------------------------------------------- callers
NoProc == "none"
NoWin == [bid |-> ZeroBid, err |-> "unset"]

\* A caller's call: the operation, its arguments, its locals (bid: the bid
\* PlaceBid builds or RecordBidForItem is given; win: what validateBid got from
\* repo.GetWinningBid) and two history fields (seen: the item's bids when the
\* call read the winner or overwrote the item; trace: the Store methods called
\* so far; inv: for a test's call of GetBidsByItem or GetItemsByUser, how many
\* bids had been recorded when it was made).  For an HTTP request, http holds
\* what the handler was wired to and what its service call returned.
NoHTTP == [backend |-> [svc |-> "none", fault |-> "none", ret |-> Nil],
           bound |-> FALSE, svcErr |-> Nil, dbErr |-> Nil]

Call(op, itemID, userID, amount, bid, item) ==
    [op |-> op, itemID |-> itemID, userID |-> userID, amount |-> amount,
     bid |-> bid, item |-> item, win |-> NoWin, seen |-> <<>>, trace |-> <<>>,
     inv |-> 0, http |-> NoHTTP]

NoCall == Call("none", "", "", 0, ZeroBid, ZeroItem)

\* What a call returned: PlaceBid's and GetWinningBid's (models.Bid, error),
\* GetBidsByItem's and GetItemsByUser's (slice, error), the others' error.
\* An HTTP request returns a response: the status, the message, and as body
\* either data (a bid or a list) or the text of an error (cause).
Result(bid, err) ==
    [bid |-> bid, err |-> err, list |-> <<>>,
     status |-> 0, message |-> "", body |-> "", cause |-> Nil]
ListResult(list, err) ==
    [bid |-> ZeroBid, err |-> err, list |-> list,
     status |-> 0, message |-> "", body |-> "", cause |-> Nil]
\* utils.JSONResponse and utils.JSONError.
JSONResponse(status, bid, list, message) ==
    [bid |-> bid, err |-> NoError, list |-> list,
     status |-> status, message |-> message, body |-> "data", cause |-> Nil]
JSONError(status, err, message) ==
    [bid |-> ZeroBid, err |-> KindOf(err), list |-> <<>>,
     status |-> status, message |-> message, body |-> "error", cause |-> err]

Init ==
    /\ bids = [i \in {} |-> <<>>]
    /\ items = [i \in SeededItemIDs |-> Item(i, 1)]
    /\ userItems = [u \in {} |-> <<>>]
    /\ mu = [writer |-> NoProc, readers |-> {}]
    /\ pc = [p \in Procs |-> "idle"]
    /\ call = [p \in Procs |-> NoCall]
    /\ res = [p \in Procs |-> Result(ZeroBid, NoError)]
    /\ now = 1
    /\ nextID = 0
    /\ calls = 0
    /\ log = <<>>

\* Faulty variants of the mutex.  (1) A reader enters only when no other
\* reader is inside.
RLock_Exclusive(p) ==
    /\ pc[p] = "rlock"
    /\ mu.writer = NoProc
    /\ mu.readers = {}
    /\ mu' = [mu EXCEPT !.readers = @ \cup {p}]
    /\ pc' = [pc EXCEPT ![p] = "rcs"]
    /\ UNCHANGED <<store, call, res, now, nextID, calls, log>>

\* (2) A reader enters whether or not a writer is inside.
RLock_IgnoresWriter(p) ==
    /\ pc[p] = "rlock"
    /\ mu' = [mu EXCEPT !.readers = @ \cup {p}]
    /\ pc' = [pc EXCEPT ![p] = "rcs"]
    /\ UNCHANGED <<store, call, res, now, nextID, calls, log>>

\* (3) A writer enters whether or not readers are inside.
Lock_IgnoresReaders(p) ==
    /\ pc[p] = "wlock"
    /\ mu.writer = NoProc
    /\ mu' = [mu EXCEPT !.writer = p]
    /\ pc' = [pc EXCEPT ![p] = "wcs"]
    /\ UNCHANGED <<store, call, res, now, nextID, calls, log>>

\* sync.RWMutex.RLock: a reader enters when no writer holds the mutex or has
\* claimed it (a call of Lock that waits for the readers inside to leave blocks
\* the calls of RLock made after it).
RLock(p) ==
    /\ pc[p] = "rlock"
    /\ mu.writer = NoProc
    /\ mu' = [mu EXCEPT !.readers = @ \cup {p}]
    /\ pc' = [pc EXCEPT ![p] = "rcs"]
    /\ UNCHANGED <<store, call, res, now, nextID, calls, log>>

\* sync.RWMutex.Lock: a writer claims the mutex when no other writer has it,
\* and is inside at once when no reader is inside; otherwise it waits for the
\* readers inside to leave.
Lock(p) ==
    /\ pc[p] = "wlock"
    /\ mu.writer = NoProc
    /\ mu' = [mu EXCEPT !.writer = p]
    /\ pc' = [pc EXCEPT ![p] = IF mu.readers = {} THEN "wcs" ELSE "wwait"]
    /\ UNCHANGED <<store, call, res, now, nextID, calls, log>>

\* sync.RWMutex.Lock, woken by the last RUnlock: the writer that claimed the
\* mutex enters when the last reader has left.
LockAcquired(p) ==
    /\ pc[p] = "wwait"
    /\ mu.readers = {}
    /\ pc' = [pc EXCEPT ![p] = "wcs"]
    /\ UNCHANGED <<store, mu, call, res, now, nextID, calls, log>>

\* BiddingService.PlaceBid is called: validateBid checks the arguments and
\* either returns ErrInvalidBid or goes on to repo.GetWinningBid.
PlaceBid(p, itemID, userID, amount) ==
    /\ pc[p] = "idle"
    /\ calls' = calls + 1
    /\ LET c == Call("PlaceBid", itemID, userID, amount, ZeroBid, ZeroItem)
           e == validateInput(itemID, userID, amount)
       IN  IF e # NoError
           THEN /\ call' = [call EXCEPT ![p] = c]
                /\ res' = [res EXCEPT ![p] = Result(ZeroBid, e)]
                /\ pc' = [pc EXCEPT ![p] = "done"]
           ELSE /\ call' = [call EXCEPT ![p] = [c EXCEPT !.trace = <<"GetWinningBid">>]]
                /\ res' = res
                /\ pc' = [pc EXCEPT ![p] = "rlock"]
    /\ UNCHANGED <<store, mu, now, nextID, log>>

\* validateBid's repo.GetWinningBid under the read lock (released on return),
\* then its comparison of the amount with the winner's.
QueryWinningBid(p) ==
    /\ pc[p] = "rcs"
    /\ call[p].op = "PlaceBid"
    /\ mu' = [mu EXCEPT !.readers = @ \ {p}]
    /\ LET win == GetWinningBid(repo, call[p].itemID)
           e == validateWinning(call[p].amount, win)
       IN  /\ call' = [call EXCEPT ![p].win = win,
                                   ![p].seen = Get(bids, call[p].itemID, <<>>)]
           /\ IF e # NoError
              THEN /\ res' = [res EXCEPT ![p] = Result(ZeroBid, e)]
                   /\ pc' = [pc EXCEPT ![p] = "done"]
              ELSE /\ res' = res
                   /\ pc' = [pc EXCEPT ![p] = "new"]
    /\ UNCHANGED <<store, now, nextID, calls, log>>

\* A faulty variant of NewBid: the bid is built without the amount.
NewBid_NoAmount(p, t) ==
    /\ pc[p] = "new"
    /\ nextID' = nextID + 1
    /\ now' = t
    /\ call' = [call EXCEPT
                  ![p].bid = Bid(GenerateID(nextID + 1), call[p].itemID,
                                 call[p].userID, 0, t),
                  ![p].trace = Append(@, "RecordBidForItem")]
    /\ pc' = [pc EXCEPT ![p] = "wlock"]
    /\ UNCHANGED <<store, mu, res, calls, log>>

\* PlaceBid builds the bid (utils.GenerateID, time.Now) and calls
\* repo.RecordBidForItem.  t is what time.Now returns: the clock has advanced
\* since it was last read, or it has not.
NewBid(p, t) ==
    /\ pc[p] = "new"
    /\ nextID' = nextID + 1
    /\ now' = t
    /\ call' = [call EXCEPT
                  ![p].bid = Bid(GenerateID(nextID + 1), call[p].itemID,
                                 call[p].userID, call[p].amount, t),
                  ![p].trace = Append(@, "RecordBidForItem")]
    /\ pc' = [pc EXCEPT ![p] = "wlock"]
    /\ UNCHANGED <<store, mu, res, calls, log>>

\* A caller other than the service (a test, main) calls repo.RecordBidForItem.
CallRecordBidForItem(p, bid) ==
    /\ pc[p] = "idle"
    /\ calls' = calls + 1
    /\ call' = [call EXCEPT ![p] =
                  [Call("RecordBidForItem", "", "", 0, bid, ZeroItem)
                     EXCEPT !.trace = <<"RecordBidForItem">>]]
    /\ pc' = [pc EXCEPT ![p] = "wlock"]
    /\ UNCHANGED <<store, mu, res, now, nextID, log>>

\* A faulty variant of RecordBid: the return of ErrItemNotFound leaves the
\* mutex locked.
RecordBid_LockedOnError(p) ==
    /\ pc[p] = "wcs"
    /\ call[p].op \in {"PlaceBid", "RecordBidForItem"}
    /\ LET out == RecordBidForItem(repo, call[p].bid)
       IN  /\ mu' = IF out.err = NoError THEN [mu EXCEPT !.writer = NoProc] ELSE mu
           /\ bids' = out.repo.bids
           /\ items' = out.repo.items
           /\ userItems' = out.repo.userItems
           /\ res' = [res EXCEPT ![p] =
                        IF out.err = NoError /\ call[p].op = "PlaceBid"
                        THEN Result(call[p].bid, NoError)
                        ELSE Result(ZeroBid, out.err)]
           /\ log' = IF out.err = NoError
                     THEN Append(log, [bid |-> call[p].bid, via |-> call[p].op,
                                       seen |-> call[p].seen,
                                       before |-> Get(bids, call[p].bid.ItemID, <<>>)])
                     ELSE log
    /\ pc' = [pc EXCEPT ![p] = "done"]
    /\ UNCHANGED <<call, now, nextID, calls>>

\* repo.RecordBidForItem under the write lock (released on return), and the
\* return of the call that made it.
RecordBid(p) ==
    /\ pc[p] = "wcs"
    /\ call[p].op \in {"PlaceBid", "RecordBidForItem"}
    /\ mu' = [mu EXCEPT !.writer = NoProc]
    /\ LET out == RecordBidForItem(repo, call[p].bid)
       IN  /\ bids' = out.repo.bids
           /\ items' = out.repo.items
           /\ userItems' = out.repo.userItems
           /\ res' = [res EXCEPT ![p] =
                        IF out.err = NoError /\ call[p].op = "PlaceBid"
                        THEN Result(call[p].bid, NoError)
                        ELSE Result(ZeroBid, out.err)]
           /\ log' = IF out.err = NoError
                     THEN Append(log, [bid |-> call[p].bid, via |-> call[p].op,
                                       seen |-> call[p].seen,
                                       before |-> Get(bids, call[p].bid.ItemID, <<>>)])
                     ELSE log
    /\ pc' = [pc EXCEPT ![p] = "done"]
    /\ UNCHANGED <<call, now, nextID, calls>>

\* A caller (a test, main) calls repo.AddItem.
CallAddItem(p, item) ==
    /\ pc[p] = "idle"
    /\ calls' = calls + 1
    /\ call' = [call EXCEPT ![p] =
                  [Call("AddItem", "", "", 0, ZeroBid, item)
                     EXCEPT !.trace = <<"AddItem">>]]
    /\ pc' = [pc EXCEPT ![p] = "wlock"]
    /\ UNCHANGED <<store, mu, res, now, nextID, log>>

\* repo.AddItem under the write lock (released on return).
StoreItem(p) ==
    /\ pc[p] = "wcs"
    /\ call[p].op = "AddItem"
    /\ mu' = [mu EXCEPT !.writer = NoProc]
    /\ LET out == AddItem(repo, call[p].item)
       IN  /\ bids' = out.bids
           /\ items' = out.items
           /\ userItems' = out.userItems
    /\ call' = [call EXCEPT ![p].seen = Get(bids, call[p].item.ItemID, <<>>)]
    /\ res' = [res EXCEPT ![p] = Result(ZeroBid, NoError)]
    /\ pc' = [pc EXCEPT ![p] = "done"]
    /\ UNCHANGED <<now, nextID, calls, log>>

\* A caller other than PlaceBid (a test) calls repo.GetWinningBid.
CallGetWinningBid(p, itemID) ==
    /\ pc[p] = "idle"
    /\ calls' = calls + 1
    /\ call' = [call EXCEPT ![p] =
                  [Call("GetWinningBid", itemID, "", 0, ZeroBid, ZeroItem)
                     EXCEPT !.trace = <<"GetWinningBid">>]]
    /\ pc' = [pc EXCEPT ![p] = "rlock"]
    /\ UNCHANGED <<store, mu, res, now, nextID, log>>

\* repo.GetWinningBid under the read lock (released on return).
ReadWinningBid(p) ==
    /\ pc[p] = "rcs"
    /\ call[p].op \in {"GetWinningBid", "BiddingService.GetWinningBid"}
    /\ mu' = [mu EXCEPT !.readers = @ \ {p}]
    /\ LET win == GetWinningBid(repo, call[p].itemID)
       IN  /\ call' = [call EXCEPT ![p].win = win,
                                   ![p].seen = Get(bids, call[p].itemID, <<>>)]
           /\ res' = [res EXCEPT ![p] = Result(win.bid, win.err)]
    /\ pc' = [pc EXCEPT ![p] = "done"]
    /\ UNCHANGED <<store, now, nextID, calls, log>>

\* The caller takes the result and is free to make its next call.
Return(p) ==
    /\ pc[p] = "done"
    /\ pc' = [pc EXCEPT ![p] = "idle"]
    /\ call' = [call EXCEPT ![p] = NoCall]
    /\ res' = [res EXCEPT ![p] = Result(ZeroBid, NoError)]
    /\ UNCHANGED <<store, mu, now, nextID, calls, log>>

\* BiddingService.GetBidsForItem is called: an empty item id is rejected,
\* otherwise repo.GetBidsByItem is called.
GetBidsForItem(p, itemID) ==
    /\ pc[p] = "idle"
    /\ calls' = calls + 1
    /\ LET c == Call("GetBidsForItem", itemID, "", 0, ZeroBid, ZeroItem)
       IN  IF itemID = ""
           THEN /\ call' = [call EXCEPT ![p] = c]
                /\ res' = [res EXCEPT ![p] = Result(ZeroBid, ErrInvalidBid)]
                /\ pc' = [pc EXCEPT ![p] = "done"]
           ELSE /\ call' = [call EXCEPT ![p] = [c EXCEPT !.trace = <<"GetBidsByItem">>]]
                /\ res' = res
                /\ pc' = [pc EXCEPT ![p] = "rlock"]
    /\ UNCHANGED <<store, mu, now, nextID, log>>

\* A caller other than the service (a test) calls repo.GetBidsByItem.
CallGetBidsByItem(p, itemID) ==
    /\ pc[p] = "idle"
    /\ calls' = calls + 1
    /\ call' = [call EXCEPT ![p] =
                  [Call("GetBidsByItem", itemID, "", 0, ZeroBid, ZeroItem)
                     EXCEPT !.trace = <<"GetBidsByItem">>, !.inv = Len(log)]]
    /\ pc' = [pc EXCEPT ![p] = "rlock"]
    /\ UNCHANGED <<store, mu, res, now, nextID, log>>

\* A faulty variant of ReadBids: looking up an item without bids leaves an
\* empty sequence for it in the map.
ReadBids_CreatesEntry(p) ==
    /\ pc[p] = "rcs"
    /\ call[p].op \in {"GetBidsByItem", "GetBidsForItem"}
    /\ mu' = [mu EXCEPT !.readers = @ \ {p}]
    /\ LET out == GetBidsByItem(repo, call[p].itemID)
       IN  /\ call' = [call EXCEPT ![p].seen = Get(bids, call[p].itemID, <<>>)]
           /\ res' = [res EXCEPT ![p] = ListResult(out.bids, out.err)]
    /\ bids' = IF call[p].itemID \in DOMAIN bids
               THEN bids
               ELSE Put(bids, call[p].itemID, <<>>)
    /\ pc' = [pc EXCEPT ![p] = "done"]
    /\ UNCHANGED <<items, userItems, now, nextID, calls, log>>

\* repo.GetBidsByItem under the read lock (released on return).
ReadBids(p) ==
    /\ pc[p] = "rcs"
    /\ call[p].op \in {"GetBidsByItem", "GetBidsForItem"}
    /\ mu' = [mu EXCEPT !.readers = @ \ {p}]
    /\ LET out == GetBidsByItem(repo, call[p].itemID)
       IN  /\ call' = [call EXCEPT ![p].seen = Get(bids, call[p].itemID, <<>>)]
           /\ res' = [res EXCEPT ![p] = ListResult(out.bids, out.err)]
    /\ pc' = [pc EXCEPT ![p] = "done"]
    /\ UNCHANGED <<store, now, nextID, calls, log>>

\* BiddingService.GetWinningBid is called: an empty item id is rejected,
\* otherwise repo.GetWinningBid is called.
ServiceGetWinningBid(p, itemID) ==
    /\ pc[p] = "idle"
    /\ calls' = calls + 1
    /\ LET c == Call("BiddingService.GetWinningBid", itemID, "", 0, ZeroBid, ZeroItem)
       IN  IF itemID = ""
           THEN /\ call' = [call EXCEPT ![p] = c]
                /\ res' = [res EXCEPT ![p] = Result(ZeroBid, ErrInvalidBid)]
                /\ pc' = [pc EXCEPT ![p] = "done"]
           ELSE /\ call' = [call EXCEPT ![p] = [c EXCEPT !.trace = <<"GetWinningBid">>]]
                /\ res' = res
                /\ pc' = [pc EXCEPT ![p] = "rlock"]
    /\ UNCHANGED <<store, mu, now, nextID, log>>

\* A caller other than the service (a test) calls repo.GetItemsByUser.
CallGetItemsByUser(p, userID) ==
    /\ pc[p] = "idle"
    /\ calls' = calls + 1
    /\ call' = [call EXCEPT ![p] =
                  [Call("GetItemsByUser", "", userID, 0, ZeroBid, ZeroItem)
                     EXCEPT !.trace = <<"GetItemsByUser">>, !.inv = Len(log)]]
    /\ pc' = [pc EXCEPT ![p] = "rlock"]
    /\ UNCHANGED <<store, mu, res, now, nextID, log>>

\* repo.GetItemsByUser under the read lock (released on return).
ReadItems(p) ==
    /\ pc[p] = "rcs"
    /\ call[p].op = "GetItemsByUser"
    /\ mu' = [mu EXCEPT !.readers = @ \ {p}]
    /\ LET out == GetItemsByUser(repo, call[p].userID)
       IN  res' = [res EXCEPT ![p] = ListResult(out.items, out.err)]
    /\ pc' = [pc EXCEPT ![p] = "done"]
    /\ UNCHANGED <<store, call, now, nextID, calls, log>>

\* A test builds a bid stamped with time.Now() (t: the clock has advanced
\* since it was last read, or it has not) and calls repo.RecordBidForItem.
RecordBidNow(p, itemID, userID, amount, t) ==
    /\ pc[p] = "idle"
    /\ calls' = calls + 1
    /\ now' = t
    /\ call' = [call EXCEPT ![p] =
                  [Call("RecordBidForItem", "", "", 0,
                        Bid("bid" \o ToString(calls + 1), itemID, userID, amount, t),
                        ZeroItem)
                     EXCEPT !.trace = <<"RecordBidForItem">>]]
    /\ pc' = [pc EXCEPT ![p] = "wlock"]
    /\ UNCHANGED <<store, mu, res, nextID, log>>

\* Two callers make at most MaxCalls calls of the service and of the Store.
Next ==
    \/ /\ calls < MaxCalls
       /\ \E p \in Procs, i \in CallItemIDs, u \in UserIDs, a \in Amounts :
            PlaceBid(p, i, u, a)
    \/ \E p \in Procs : QueryWinningBid(p)
    \/ \E p \in Procs, t \in {now, now + 1} : NewBid(p, t)
    \/ /\ calls < MaxCalls
       /\ \E p \in Procs, b \in DirectBids : CallRecordBidForItem(p, b)
    \/ \E p \in Procs : RecordBid(p)
    \/ /\ calls < MaxCalls
       /\ \E p \in Procs, i \in CallItemIDs : CallGetWinningBid(p, i)
    \/ \E p \in Procs : ReadWinningBid(p)
    \/ /\ calls < MaxCalls
       /\ \E p \in Procs, i \in CallItemIDs, price \in Prices :
            CallAddItem(p, Item(i, price))
    \/ \E p \in Procs : StoreItem(p)
    \/ \E p \in Procs : RLock(p)
    \/ \E p \in Procs : Lock(p)
    \/ \E p \in Procs : LockAcquired(p)
    \/ \E p \in Procs : Return(p)

Spec == Init /\ [][Next]_vars

\* Fair scheduling: a caller inside an operation keeps taking its steps (the
\* goroutine is scheduled), and a caller waiting for the mutex gets it if it
\* is free again and again (sync.RWMutex hands the mutex to waiters); callers
\* need not make calls, nor pick up results.
Step(p) ==
    \/ QueryWinningBid(p)
    \/ \E t \in {now, now + 1} : NewBid(p, t)
    \/ RecordBid(p)
    \/ ReadWinningBid(p)
    \/ StoreItem(p)
    \/ LockAcquired(p)

Fairness ==
    \A p \in Procs :
      /\ WF_vars(Step(p))
      /\ SF_vars(RLock(p))
      /\ SF_vars(Lock(p))

\* Number of calls the callers start under fair scheduling.
MaxFairCalls == 3

\* The calls of Next with one argument for each path through the code:
\* PlaceBid of an invalid amount, of a valid one, on an item that exists or
\* not; RecordBidForItem on an item that exists (twice: the bidder already has
\* the item) or not; GetWinningBid; AddItem.
NextFair ==
    \/ /\ calls < MaxFairCalls
       /\ \E p \in Procs, i \in {"item1", "itemX"}, a \in {0, 1} :
            PlaceBid(p, i, "u1", a)
    \/ \E p \in Procs : QueryWinningBid(p)
    \/ \E p \in Procs, t \in {now, now + 1} : NewBid(p, t)
    \/ /\ calls < MaxFairCalls
       /\ \E p \in Procs, i \in {"item1", "itemX"} :
            CallRecordBidForItem(p, Bid("bid1", i, "u1", 2, 1))
    \/ \E p \in Procs : RecordBid(p)
    \/ /\ calls < MaxFairCalls
       /\ \E p \in Procs : CallGetWinningBid(p, SeedItemID)
    \/ \E p \in Procs : ReadWinningBid(p)
    \/ /\ calls < MaxFairCalls
       /\ \E p \in Procs, price \in Prices : CallAddItem(p, Item(SeedItemID, price))
    \/ \E p \in Procs : StoreItem(p)
    \/ \E p \in Procs : RLock(p)
    \/ \E p \in Procs : Lock(p)
    \/ \E p \in Procs : LockAcquired(p)
    \/ \E p \in Procs : Return(p)

SpecFair == Init /\ [][NextFair]_vars /\ Fairness

\* ------------------------------------------- the winner scan on its own
\* The bids a test can record at position k of an item's sequence: any of
\* three amounts, any timestamp, an identifier of its own.
ScanBids(k) ==
    {Bid("bid" \o ToString(k), SeedItemID, "u1", a, t) : a \in {-1, 1, 2}, t \in Times}

\* The sequences of 1..MaxLen such bids.
ScanSeqs ==
    UNION {{q \in [1..n -> UNION {ScanBids(k) : k \in 1..n}] :
              \A k \in 1..n : q[k] \in ScanBids(k)} : n \in 1..MaxLen}

\* The repository after RecordBidForItem of each bid of q in turn.
RECURSIVE RecordAll(_, _)
RecordAll(r, q) ==
    IF q = <<>> THEN r ELSE RecordAll(RecordBidForItem(r, Head(q)).repo, Tail(q))

\* A seeded repository on which a test has recorded a sequence of bids.
InitWinning ==
    /\ \E q \in ScanSeqs :
         LET r == RecordAll([bids |-> [i \in {} |-> <<>>],
                             items |-> [i \in {SeedItemID} |-> SeedItem],
                             userItems |-> [u \in {} |-> <<>>]], q)
         IN  /\ bids = r.bids
             /\ items = r.items
             /\ userItems = r.userItems
             /\ log = [k \in 1..Len(q) |->
                         [bid |-> q[k], via |-> "RecordBidForItem", seen |-> <<>>,
                          before |-> SubSeq(q, 1, k - 1)]]
    /\ mu = [writer |-> NoProc, readers |-> {}]
    /\ pc = [p \in Procs |-> "idle"]
    /\ call = [p \in Procs |-> NoCall]
    /\ res = [p \in Procs |-> Result(ZeroBid, NoError)]
    /\ now = 1
    /\ nextID = 0
    /\ calls = 0

\* Callers that only ask for the winner.
NextWinning ==
    \/ /\ calls < MaxCalls
       /\ \E p \in Procs, i \in CallItemIDs : CallGetWinningBid(p, i)
    \/ \E p \in Procs : RLock(p)
    \/ \E p \in Procs : ReadWinningBid(p)
    \/ \E p \in Procs : Return(p)

SpecWinning == InitWinning /\ [][NextWinning]_vars

\* ------------------------------------------- one caller, one call at a time
\* Number of calls the single caller makes.
MaxServiceCalls == 4

\* The single caller, the bidders and the amounts of its calls.
Caller == "p1"
Bidders == {"u1", "u2"}
ServiceAmounts == {1, 2, 3}
TieAmount == 2

\* One caller calls the service (PlaceBid, GetBidsForItem, GetWinningBid) and,
\* as the repository's tests do, repo.RecordBidForItem with a bid stamped by
\* the clock; each call returns before the next one is made.
NextService ==
    \/ /\ calls < MaxServiceCalls
       /\ \E i \in {"item1", "itemX"}, u \in Bidders, a \in ServiceAmounts :
            PlaceBid(Caller, i, u, a)
    \/ QueryWinningBid(Caller)
    \/ \E t \in {now, now + 1} : NewBid(Caller, t)
    \/ /\ calls < MaxServiceCalls
       /\ \E u \in Bidders, t \in {now, now + 1} :
            RecordBidNow(Caller, SeedItemID, u, TieAmount, t)
    \/ RecordBid(Caller)
    \/ /\ calls < MaxServiceCalls
       /\ \E i \in CallItemIDs : GetBidsForItem(Caller, i)
    \/ ReadBids(Caller)
    \/ /\ calls < MaxServiceCalls
       /\ \E i \in CallItemIDs : ServiceGetWinningBid(Caller, i)
    \/ ReadWinningBid(Caller)
    \/ RLock(Caller)
    \/ Lock(Caller)
    \/ Return(Caller)

SpecService == Init /\ [][NextService]_vars

\* ---------------------------------------- concurrent calls of the Store
\* Number of calls of the Store the two callers make.
MaxStoreCalls == 3

\* The second item the tests seed the repository with.
SeedItem2 == Item("item2", 1)

\* The bids the callers record: on either seeded item or on no item, by
\* either bidder; and, as in the table of the repository's tests, bids on the
\* seeded item with no bidder, a negative, zero or very large amount, and a
\* past or future timestamp.
StoreBids ==
    {Bid("bid1", i, u, 1, 1) : i \in StoreItemIDs, u \in Bidders}
      \cup {Bid("bid1", SeedItemID, "", a, t) : a \in {-1, 0, 1000}, t \in {0, 2}}

\* A repository seeded with two items.
InitStore ==
    /\ bids = [i \in {} |-> <<>>]
    /\ items = [i \in {SeedItemID, SeedItem2.ItemID} |->
                  IF i = SeedItemID THEN SeedItem ELSE SeedItem2]
    /\ userItems = [u \in {} |-> <<>>]
    /\ mu = [writer |-> NoProc, readers |-> {}]
    /\ pc = [p \in Procs |-> "idle"]
    /\ call = [p \in Procs |-> NoCall]
    /\ res = [p \in Procs |-> Result(ZeroBid, NoError)]
    /\ now = 1
    /\ nextID = 0
    /\ calls = 0
    /\ log = <<>>

\* repo.RecordBidForItem under the write lock, its first part: the existence
\* check, which returns ErrItemNotFound (releasing the lock), and the append
\* to r.bids.
RecordAppend(p) ==
    /\ pc[p] = "wcs"
    /\ call[p].op = "RecordBidForItem"
    /\ LET out == RecordBidForItem(repo, call[p].bid)
       IN  IF out.err # NoError
           THEN /\ mu' = [mu EXCEPT !.writer = NoProc]
                /\ res' = [res EXCEPT ![p] = Result(ZeroBid, out.err)]
                /\ pc' = [pc EXCEPT ![p] = "done"]
                /\ bids' = bids
           ELSE /\ bids' = out.repo.bids
                /\ pc' = [pc EXCEPT ![p] = "wcs2"]
                /\ UNCHANGED <<mu, res>>
    /\ UNCHANGED <<items, userItems, call, now, nextID, calls, log>>

\* repo.RecordBidForItem under the write lock, its second part: the update of
\* r.userItems and the return (releasing the lock).
RecordUserItems(p) ==
    /\ pc[p] = "wcs2"
    /\ userItems' = RecordBidForItem(repo, call[p].bid).repo.userItems
    /\ mu' = [mu EXCEPT !.writer = NoProc]
    /\ res' = [res EXCEPT ![p] = Result(ZeroBid, NoError)]
    /\ log' = LET q == Get(bids, call[p].bid.ItemID, <<>>)
              IN  Append(log, [bid |-> call[p].bid, via |-> call[p].op,
                               seen |-> call[p].seen,
                               before |-> SubSeq(q, 1, Len(q) - 1)])
    /\ pc' = [pc EXCEPT ![p] = "done"]
    /\ UNCHANGED <<bids, items, call, now, nextID, calls>>

\* Two callers make at most MaxStoreCalls calls of the repository, as its
\* tests do; the two map updates of RecordBidForItem are separate steps, so
\* that only the mutex keeps the state between them from being read.
NextStore ==
    \/ /\ calls < MaxStoreCalls
       /\ \E p \in Procs, b \in StoreBids : CallRecordBidForItem(p, b)
    \/ \E p \in Procs : RecordAppend(p)
    \/ \E p \in Procs : RecordUserItems(p)
    \/ /\ calls < MaxStoreCalls
       /\ \E p \in Procs, price \in Prices : CallAddItem(p, Item(SeedItemID, price))
    \/ \E p \in Procs : StoreItem(p)
    \/ /\ calls < MaxStoreCalls
       /\ \E p \in Procs, i \in {SeedItemID, SeedItem2.ItemID} : CallGetBidsByItem(p, i)
    \/ \E p \in Procs : ReadBids(p)
    \/ /\ calls < MaxStoreCalls
       /\ \E p \in Procs, i \in {SeedItemID, SeedItem2.ItemID} : CallGetWinningBid(p, i)
    \/ \E p \in Procs : ReadWinningBid(p)
    \/ /\ calls < MaxStoreCalls
       /\ \E p \in Procs, u \in Bidders : CallGetItemsByUser(p, u)
    \/ \E p \in Procs : ReadItems(p)
    \/ \E p \in Procs : RLock(p)
    \/ \E p \in Procs : Lock(p)
    \/ \E p \in Procs : LockAcquired(p)
    \/ \E p \in Procs : Return(p)

SpecStore == InitStore /\ [][NextStore]_vars

\* ------------------------------------------------------------- properties
\* Caller p has finished a call of operation op and holds its result.
Done(p, op) == pc[p] = "done" /\ call[p].op = op

\* The arguments of a PlaceBid call pass the checks of the arguments alone.
ValidInput(c) == c.itemID # "" /\ c.userID # "" /\ c.amount > 0

\* q is a prefix of s.
IsPrefix(q, s) == Len(q) <= Len(s) /\ \A k \in 1..Len(q) : q[k] = s[k]

\* The positions of the bids of sequence q that the tie-break rule selects:
\* maximum amount, then earliest created_at.
MaxPositions(q) == {k \in 1..Len(q) : \A j \in 1..Len(q) : q[k].Amount >= q[j].Amount}
EarliestMaxPositions(q) ==
    {k \in MaxPositions(q) :
       \A j \in MaxPositions(q) : ~(q[j].CreatedAt < q[k].CreatedAt)}

\* C1: for a non-empty bid sequence GetWinningBid returns, without error, a
\* bid of the sequence whose amount is >= every amount in it, than which no bid
\* of that amount was created strictly earlier, and which is the first in the
\* sequence of the bids that share that amount and that created_at.
C1_WinnerIsMaxEarliestFirst ==
    \A p \in Procs :
      (Done(p, "GetWinningBid") /\ Len(call[p].seen) > 0) =>
        LET q == call[p].seen
            w == res[p].bid
        IN  /\ res[p].err = NoError
            /\ \E k \in 1..Len(q) : q[k] = w
            /\ \A j \in 1..Len(q) : w.Amount >= q[j].Amount
            /\ \A j \in 1..Len(q) :
                 q[j].Amount = w.Amount => ~(q[j].CreatedAt < w.CreatedAt)
            /\ \E k \in EarliestMaxPositions(q) :
                 /\ q[k] = w
                 /\ \A j \in EarliestMaxPositions(q) : k <= j

\* C1 witness: three bids of the maximum amount, the first created later than
\* the other two, which share their created_at: the second one is returned.
C1_Witness ==
    \E p \in Procs :
      /\ Done(p, "GetWinningBid")
      /\ Len(call[p].seen) = 3
      /\ LET q == call[p].seen
         IN  /\ q[1].Amount = q[2].Amount /\ q[2].Amount = q[3].Amount
             /\ q[2].CreatedAt < q[1].CreatedAt
             /\ q[3].CreatedAt = q[2].CreatedAt
             /\ res[p].bid = q[2]

\* The successful PlaceBid calls on item i: their positions in the history.
PlacedOn(i) ==
    {k \in 1..Len(log) : log[k].via = "PlaceBid" /\ log[k].bid.ItemID = i}

\* C2: no lost updates.  For an item that has been written only through
\* PlaceBid, in whatever interleaving, GetBidsByItem returns exactly as many
\* bids as PlaceBid calls on it have returned success, and the bid of each such
\* call exactly once.
C2_NoLostUpdates ==
    \A i \in ItemIDs :
      (\A k \in 1..Len(log) : log[k].bid.ItemID = i => log[k].via = "PlaceBid") =>
        LET got == GetBidsByItem(repo, i).bids
        IN  /\ Len(got) = Cardinality(PlacedOn(i))
            /\ \A k \in PlacedOn(i) :
                 Cardinality({j \in 1..Len(got) : got[j] = log[k].bid}) = 1

\* C2 witness: two PlaceBid calls by distinct bidders on the same item, which
\* had no bids, overlapped (each queried the winner before either recorded),
\* both succeeded, and the item has two bids.
C2_Witness ==
    /\ Len(log) = 2
    /\ log[1].via = "PlaceBid" /\ log[2].via = "PlaceBid"
    /\ log[1].bid.ItemID = log[2].bid.ItemID
    /\ log[1].bid.UserID # log[2].bid.UserID
    /\ log[1].seen = <<>> /\ log[2].seen = <<>>
    /\ Len(GetBidsByItem(repo, log[1].bid.ItemID).bids) = 2

\* C3: the check-then-act race.  A bid accepted through PlaceBid has an amount
\* <= the amount of a bid already in the Store when it is recorded only if the
\* Store changed between the call's winner query and its RecordBidForItem: the
\* check it passed was against a stale winner.  (That this happens is the
\* witness.)
C3_LowBidOnlyByStaleRead ==
    \A k \in 1..Len(log) :
      (/\ log[k].via = "PlaceBid"
       /\ \E j \in 1..Len(log[k].before) : log[k].bid.Amount <= log[k].before[j].Amount)
      => /\ log[k].seen # log[k].before
         /\ IsPrefix(log[k].seen, log[k].before)
         /\ \A j \in 1..Len(log[k].seen) : log[k].bid.Amount > log[k].seen[j].Amount

\* C3 witness: two PlaceBid calls on one item read the same state of the
\* item's bids (here: none, NoBids), both pass the check and both are recorded,
\* the second with an amount <= the winning amount at the moment it is recorded.
C3_Witness ==
    \E j, k \in 1..Len(log) :
      /\ j < k
      /\ log[j].via = "PlaceBid" /\ log[k].via = "PlaceBid"
      /\ log[j].bid.ItemID = log[k].bid.ItemID
      /\ log[j].seen = log[k].seen
      /\ \E m \in MaxPositions(log[k].before) :
           log[k].bid.Amount <= log[k].before[m].Amount

\* C4: a PlaceBid call with valid arguments returns ErrBidTooLow exactly when
\* its winner query succeeded and its amount is <= the winning amount returned;
\* it then returns no bid, has called no Store method but GetWinningBid, and its
\* steps leave the Store unchanged.
C4_BidTooLowExactly ==
    /\ [](\A p \in Procs :
            (Done(p, "PlaceBid") /\ ValidInput(call[p])) =>
              /\ res[p].err = ErrBidTooLow <=>
                   (call[p].win.err = NoError /\ call[p].amount <= call[p].win.bid.Amount)
              /\ res[p].err = ErrBidTooLow =>
                   (res[p].bid = ZeroBid /\ call[p].trace = <<"GetWinningBid">>))
    /\ [][\A p \in Procs :
            (call'[p].op = "PlaceBid" /\ pc'[p] = "done" /\ pc[p] # "done"
               /\ res'[p].err = ErrBidTooLow)
            => UNCHANGED store]_vars

\* C4 witness: a PlaceBid with valid arguments and an amount equal to the
\* winning amount has been rejected with ErrBidTooLow.
C4_Witness ==
    \E p \in Procs :
      /\ Done(p, "PlaceBid")
      /\ ValidInput(call[p])
      /\ call[p].win.err = NoError
      /\ call[p].amount = call[p].win.bid.Amount
      /\ res[p].err = ErrBidTooLow

\* C5: a PlaceBid call with an empty item id, an empty bidder id or an amount
\* <= 0 returns ErrInvalidBid and no bid at once, whatever the Store holds,
\* having called no Store method.
C5_InvalidBidWithoutStoreCall ==
    \A p \in Procs :
      (call[p].op = "PlaceBid"
         /\ (call[p].itemID = "" \/ call[p].userID = "" \/ call[p].amount <= 0))
      => /\ pc[p] = "done"
         /\ res[p] = Result(ZeroBid, ErrInvalidBid)
         /\ call[p].trace = <<>>

\* C5 witness: a PlaceBid with amount 0 and proper ids on the seeded item,
\* which has bids, has been rejected with ErrInvalidBid.
C5_Witness ==
    \E p \in Procs :
      /\ Done(p, "PlaceBid")
      /\ call[p].itemID = SeedItemID /\ call[p].userID # "" /\ call[p].amount = 0
      /\ Len(Get(bids, SeedItemID, <<>>)) > 0
      /\ res[p].err = ErrInvalidBid

\* C6 as stated, read for proper (non-empty) item and bidder ids: a PlaceBid on
\* an item id that is not in the Item collection returns ErrItemNotFound,
\* whatever the amount.
C6_AsStated ==
    \A p \in Procs :
      (Done(p, "PlaceBid") /\ call[p].itemID # "" /\ call[p].userID # ""
         /\ call[p].itemID \notin DOMAIN items)
      => res[p].err = ErrItemNotFound

\* Nothing of item i is recorded: no bid sequence, no entry in a bidder's list.
NothingRecordedFor(i) ==
    /\ Get(bids, i, <<>>) = <<>>
    /\ \A u \in DOMAIN userItems : i \notin Elems(userItems[u])
    /\ \A k \in 1..Len(log) : log[k].bid.ItemID # i

\* C6 amended: a PlaceBid with a non-empty item id, a non-empty bidder id and
\* an amount > 0 on an item id that is not in the Item collection returns
\* ErrItemNotFound and no bid, and nothing is recorded for that id.
C6_ItemNotFoundForValidInput ==
    \A p \in Procs :
      (Done(p, "PlaceBid") /\ ValidInput(call[p]) /\ call[p].itemID \notin DOMAIN items)
      => /\ res[p] = Result(ZeroBid, ErrItemNotFound)
         /\ call[p].trace = <<"GetWinningBid", "RecordBidForItem">>
         /\ NothingRecordedFor(call[p].itemID)

\* C6 witness: such a call has returned ErrItemNotFound.
C6_Witness ==
    \E p \in Procs :
      /\ Done(p, "PlaceBid")
      /\ ValidInput(call[p])
      /\ call[p].itemID \notin DOMAIN items
      /\ res[p].err = ErrItemNotFound

\* C7: every item id with at least one recorded bid and every item id in a
\* bidder's list is in the Item collection, every bid of an item's sequence
\* carries that item's id, and GetItemsByUser skips no id.
C7_RecordedIdsAreItems ==
    /\ \A i \in DOMAIN bids : Len(bids[i]) > 0 => i \in DOMAIN items
    /\ \A i \in DOMAIN bids : \A k \in 1..Len(bids[i]) : bids[i][k].ItemID = i
    /\ \A u \in DOMAIN userItems :
         /\ \A k \in 1..Len(userItems[u]) : userItems[u][k] \in DOMAIN items
         /\ Len(GetItemsByUser(repo, u).items) = Len(userItems[u])

\* C7 witness: a bid has been recorded for an item added by AddItem, and is in
\* its bidder's list.
C7_Witness ==
    \E i \in DOMAIN bids, u \in DOMAIN userItems :
      /\ i # SeedItemID
      /\ Len(bids[i]) > 0
      /\ bids[i][1].UserID = u
      /\ i \in Elems(userItems[u])

\* C8 as stated: RecordBidForItem of a bid with an empty item id returns
\* ErrItemNotFound in every reachable state.
C8_EmptyItemIDNotFound ==
    \A p \in Procs :
      (Done(p, "RecordBidForItem") /\ call[p].bid.ItemID = "")
      => res[p].err = ErrItemNotFound

\* C9: every step leaves each item's previous bid sequence a prefix of its new
\* one.
C9_AppendOnly ==
    [][\A i \in ItemIDs : IsPrefix(Get(bids, i, <<>>), Get(bids', i, <<>>))]_vars

\* C9 witness: AddItem has overwritten an item that had a bid, and the bid is
\* still the first of the item's sequence.
C9_Witness ==
    \E p \in Procs :
      /\ Done(p, "AddItem")
      /\ Len(call[p].seen) > 0
      /\ items[call[p].item.ItemID] = call[p].item
      /\ IsPrefix(call[p].seen, Get(bids, call[p].item.ItemID, <<>>))

\* C10: no bidder's item list holds an item id twice, and GetItemsByUser
\* returns no item twice.
C10_NoDuplicateItems ==
    \A u \in DOMAIN userItems :
      /\ \A j, k \in 1..Len(userItems[u]) :
           j # k => userItems[u][j] # userItems[u][k]
      /\ LET got == GetItemsByUser(repo, u).items
         IN  \A j, k \in 1..Len(got) : j # k => got[j].ItemID # got[k].ItemID

\* C10 witness: a bidder has two bids on one item and the item once in the
\* list.
C10_Witness ==
    \E u \in DOMAIN userItems, i \in DOMAIN bids :
      /\ Cardinality({k \in 1..Len(bids[i]) : bids[i][k].UserID = u}) >= 2
      /\ Cardinality({k \in 1..Len(userItems[u]) : userItems[u][k] = i}) = 1

\* C11: for an item written only through PlaceBid, in whatever interleaving,
\* when several of its bids share the maximum amount GetWinningBid returns the
\* one the Store recorded first (the earliest position of the sequence), and
\* that bid is also the earliest created.
C11_TieGoesToFirstRecorded ==
    \A i \in ItemIDs :
      (/\ \A k \in 1..Len(log) : log[k].bid.ItemID = i => log[k].via = "PlaceBid"
       /\ Len(Get(bids, i, <<>>)) > 0)
      => LET q == Get(bids, i, <<>>)
             w == GetWinningBid(repo, i).bid
         IN  /\ \E k \in MaxPositions(q) :
                  /\ q[k] = w
                  /\ \A j \in MaxPositions(q) : k <= j
             /\ \A j \in MaxPositions(q) : ~(q[j].CreatedAt < w.CreatedAt)

\* The service's reads of an item's bids.
ItemReads == {"GetBidsForItem", "BiddingService.GetWinningBid"}

\* C12 as stated: GetBidsForItem and the service's GetWinningBid fail with
\* ErrNoBids exactly when the item's recorded bid sequence is empty, whatever
\* the item identifier, and succeed whenever at least one bid is recorded.
C12_AsStated ==
    \A p \in Procs :
      (pc[p] = "done" /\ call[p].op \in ItemReads) =>
        LET q == Get(bids, call[p].itemID, <<>>)
        IN  /\ res[p].err = ErrNoBids <=> Len(q) = 0
            /\ Len(q) > 0 => res[p].err = NoError

\* C12: for a non-empty item identifier, GetBidsForItem and the service's
\* GetWinningBid fail with ErrNoBids exactly when the item's recorded bid
\* sequence is empty when they read it (the item exists and has no bids, or the
\* item does not exist), and succeed whenever at least one bid is recorded,
\* GetBidsForItem returning the sequence; for the empty identifier they fail
\* with ErrInvalidBid.
C12_NoBidsIffEmpty ==
    \A p \in Procs :
      (pc[p] = "done" /\ call[p].op \in ItemReads) =>
        IF call[p].itemID = ""
        THEN res[p].err = ErrInvalidBid
        ELSE /\ res[p].err = ErrNoBids <=> Len(call[p].seen) = 0
             /\ Len(call[p].seen) > 0 =>
                  /\ res[p].err = NoError
                  /\ call[p].op = "GetBidsForItem" => res[p].list = call[p].seen
             /\ call[p].seen = Get(bids, call[p].itemID, <<>>)

\* C12 witness: GetBidsForItem of an item that does not exist has failed with
\* ErrNoBids, while another item has a recorded bid.
C12_Witness ==
    /\ Done(Caller, "GetBidsForItem")
    /\ call[Caller].itemID # ""
    /\ call[Caller].itemID \notin DOMAIN items
    /\ res[Caller].err = ErrNoBids
    /\ Len(log) > 0

\* C13: GetItemsByUser fails with ErrUserNoBids exactly when no
\* RecordBidForItem for that bidder has ever succeeded, and succeeds otherwise;
\* a bidder all of whose PlaceBid calls were rejected is such a bidder.
C13_NoBidsForBidderIffNeverRecorded ==
    \A u \in UserIDs :
      LET recorded == \E k \in 1..Len(log) : log[k].bid.UserID = u
          got == GetItemsByUser(repo, u)
      IN  /\ got.err = ErrUserNoBids <=> ~recorded
          /\ recorded => got.err = NoError /\ Len(got.items) > 0

\* C13 witness: a PlaceBid of valid arguments has been rejected by the winner
\* rule or for want of the item, another bidder has a recorded bid, and
\* GetItemsByUser of the rejected bidder fails with ErrUserNoBids.
C13_Witness ==
    \E p \in Procs :
      /\ Done(p, "PlaceBid")
      /\ res[p].err \in {ErrBidTooLow, ErrItemNotFound}
      /\ Len(log) > 0
      /\ GetItemsByUser(repo, call[p].userID).err = ErrUserNoBids

\* The items bidder u has a recorded bid on, and the position in the history
\* of u's first recorded bid on item i.
TouchedBy(u) == {log[k].bid.ItemID : k \in {j \in 1..Len(log) : log[j].bid.UserID = u}}
FirstBid(u, i) ==
    CHOOSE k \in 1..Len(log) :
      /\ log[k].bid.UserID = u /\ log[k].bid.ItemID = i
      /\ \A j \in 1..(k - 1) : ~(log[j].bid.UserID = u /\ log[j].bid.ItemID = i)

\* C14: GetItemsByUser returns the items the bidder has a recorded bid on, each
\* once, in the order of the bidder's first recorded bid on each: an item
\* precedes another exactly when the bidder's first bid on it was recorded
\* before the first bid on the other; later bids on an item already in the list
\* do not move it.
C14_FirstBidOrder ==
    \A u \in UserIDs :
      LET got == GetItemsByUser(repo, u).items
      IN  /\ {got[k].ItemID : k \in 1..Len(got)} = TouchedBy(u)
          /\ Len(got) = Cardinality(TouchedBy(u))
          /\ \A j, k \in 1..Len(got) :
               j < k <=> FirstBid(u, got[j].ItemID) < FirstBid(u, got[k].ItemID)

\* C14 witness: a bidder's bids were recorded on item2, then item1, then item2
\* again, and GetItemsByUser returns item2, item1.
C14_Witness ==
    \E u \in Bidders :
      /\ Len(log) = 3
      /\ \A k \in 1..3 : log[k].bid.UserID = u
      /\ log[1].bid.ItemID = "item2"
      /\ log[2].bid.ItemID = "item1"
      /\ log[3].bid.ItemID = "item2"
      /\ LET got == GetItemsByUser(repo, u).items
         IN  Len(got) = 2 /\ got[1].ItemID = "item2" /\ got[2].ItemID = "item1"

\* The callers inside a write critical section and inside a read one.
WritersInside == {p \in Procs : pc[p] \in {"wcs", "wcs2"}}
ReadersInside == {p \in Procs : pc[p] = "rcs"}

\* C15: while a write (RecordBidForItem, AddItem) is inside its critical
\* section no other operation, read or write, is inside one: at most one writer
\* is inside, and none while a reader is.
C15_WriterExcludesAll ==
    /\ Cardinality(WritersInside) <= 1
    /\ WritersInside # {} => ReadersInside = {}
    /\ \A p \in WritersInside : mu.writer = p /\ mu.readers = {}

\* C15 witness: RecordBidForItem is between its two updates while the other
\* caller, reader or writer, waits for the mutex.
C15_Witness ==
    \E p, q \in Procs :
      /\ pc[p] = "wcs2"
      /\ pc[q] \in {"rlock", "wlock"}

\* C16: readers never block each other.  A caller waiting for the read lock
\* can take it whenever no writer holds the mutex or has claimed it, however
\* many readers are inside; the readers inside are those the mutex counts.
C16_ReadersShare ==
    /\ \A p \in Procs :
         (pc[p] = "rlock" /\ mu.writer = NoProc) => ENABLED RLock(p)
    /\ mu.readers = ReadersInside

\* C16 witness: two readers, of different operations, are inside their
\* critical sections at the same time.
C16_Witness ==
    \E p, q \in Procs :
      /\ p # q
      /\ pc[p] = "rcs" /\ pc[q] = "rcs"
      /\ call[p].op = "GetBidsByItem"
      /\ call[q].op = "GetItemsByUser"

\* The Store's read operations, and what the read of call c returns on
\* repository r.
StoreReads == {"GetBidsByItem", "GetWinningBid", "GetItemsByUser"}
ReadOf(c, r) ==
    CASE c.op = "GetBidsByItem" ->
           ListResult(GetBidsByItem(r, c.itemID).bids, GetBidsByItem(r, c.itemID).err)
      [] c.op = "GetWinningBid" ->
           Result(GetWinningBid(r, c.itemID).bid, GetWinningBid(r, c.itemID).err)
      [] c.op = "GetItemsByUser" ->
           ListResult(GetItemsByUser(r, c.userID).items, GetItemsByUser(r, c.userID).err)

\* The repository as the writes that have returned left it: the bids of the
\* history recorded in turn on the items.
Committed ==
    RecordAll([bids |-> [i \in {} |-> <<>>], items |-> items,
               userItems |-> [u \in {} |-> <<>>]],
              [k \in 1..Len(log) |-> log[k].bid])

\* C17: reads are linearizable.  Each read of the Store runs on the repository
\* exactly as the writes completed so far left it, a state that exists between
\* the read's invocation and its return, and returns what the operation
\* computes from that state; it never sees a RecordBidForItem half applied.
C17_ReadsLinearizable ==
    [][\A p \in Procs :
         (pc[p] = "rcs" /\ pc'[p] = "done" /\ call[p].op \in StoreReads) =>
           /\ repo = Committed
           /\ res'[p] = ReadOf(call[p], Committed)]_vars

\* C17 witness: GetBidsByItem has returned more bids than had been recorded
\* when it was called: a RecordBidForItem completed between the call and the
\* read, and the read saw it whole.
C17_Witness ==
    \E p \in Procs :
      /\ Done(p, "GetBidsByItem")
      /\ res[p].err = NoError
      /\ Len(res[p].list) > call[p].inv

\* A caller is inside an operation that has not returned.
Busy(p) == pc[p] \notin {"idle", "done"}

\* C18: no operation blocks indefinitely.  Under fair scheduling every call of
\* the service or of the Store that has been made returns; the mutex is free
\* whenever no caller is inside an operation of the Store, whatever the
\* operations returned (ErrItemNotFound, ErrNoBids, success), so PlaceBid never
\* asks for the mutex while it holds it; and no state is reachable in which a
\* caller is inside an operation and no caller inside one can take a step.
C18_EveryCallReturns ==
    /\ \A p \in Procs : Busy(p) ~> (pc[p] = "done")
    /\ [](\A p \in Procs :
            /\ p \in mu.readers <=> pc[p] = "rcs"
            /\ mu.writer = p <=> pc[p] \in {"wwait", "wcs", "wcs2"})
    /\ []((\E p \in Procs : Busy(p)) =>
            \E p \in Procs : ENABLED (Step(p) \/ RLock(p) \/ Lock(p)))

\* C18 witness: a RecordBidForItem that found no item has returned
\* ErrItemNotFound and the mutex is free, while the other caller's PlaceBid,
\* which passed the winner check and released the read lock, waits for the
\* write lock.
C18_Witness ==
    \E p, q \in Procs :
      /\ Done(p, "RecordBidForItem")
      /\ res[p].err = ErrItemNotFound
      /\ mu = [writer |-> NoProc, readers |-> {}]
      /\ call[q].op = "PlaceBid"
      /\ pc[q] = "wlock"

\* Item i has been written only through PlaceBid.
OnlyPlaced(i) ==
    \A k \in 1..Len(log) : log[k].bid.ItemID = i => log[k].via = "PlaceBid"

\* The last successful PlaceBid on item i.
LastPlaced(i) == CHOOSE k \in PlacedOn(i) : \A j \in PlacedOn(i) : j <= k

\* C19: when PlaceBid calls do not overlap (one caller, each call returned
\* before the next) and an item is written only through PlaceBid, each accepted
\* bid's amount is strictly greater than every earlier accepted amount for the
\* item, the winner is the most recently accepted bid and the service's
\* GetWinningBid returns it; the Store changes only in the step that records
\* an accepted bid, so a rejected PlaceBid leaves the winner unchanged.
C19_SequentialPlaceBids ==
    /\ [](\A i \in ItemIDs :
            OnlyPlaced(i) =>
              /\ \A j, k \in PlacedOn(i) :
                   j < k => log[j].bid.Amount < log[k].bid.Amount
              /\ PlacedOn(i) # {} =>
                   /\ GetWinningBid(repo, i) =
                        [bid |-> log[LastPlaced(i)].bid, err |-> NoError]
                   /\ (Done(Caller, "BiddingService.GetWinningBid")
                         /\ call[Caller].itemID = i) =>
                        res[Caller] = Result(log[LastPlaced(i)].bid, NoError))
    /\ [][/\ store' # store =>
               (pc[Caller] = "wcs" /\ res'[Caller].err = NoError)
          /\ (call[Caller].op = "PlaceBid" /\ pc'[Caller] = "done"
                /\ res'[Caller].err # NoError) =>
               /\ store' = store
               /\ \A i \in ItemIDs : GetWinningBid(repo, i)' = GetWinningBid(repo, i)]_vars

\* C19 witness: two bidders' PlaceBid calls on an item were accepted, the
\* second of a greater amount; a third PlaceBid has been rejected with
\* ErrBidTooLow, and the winner is still the second bid.
C19_Witness ==
    /\ Done(Caller, "PlaceBid")
    /\ res[Caller].err = ErrBidTooLow
    /\ Len(log) = 2
    /\ log[1].via = "PlaceBid" /\ log[2].via = "PlaceBid"
    /\ log[1].bid.ItemID = call[Caller].itemID
    /\ log[2].bid.ItemID = call[Caller].itemID
    /\ log[1].bid.UserID # log[2].bid.UserID
    /\ log[1].bid.Amount < log[2].bid.Amount
    /\ GetWinningBid(repo, call[Caller].itemID).bid = log[2].bid

\* C20: of bids placed one after the other, the first of those of the maximum
\* amount wins.  If RecordBidForItem records a bid of bidder A and then one of
\* the same amount of bidder B, each stamped when it was built, the winner is
\* the earlier of the two in the sequence, and the service's GetWinningBid
\* returns it; a PlaceBid of an amount equal to the winner's is rejected with
\* ErrBidTooLow, which leaves the winner in place.
C20_FirstOfEqualBidsWins ==
    /\ \A i \in ItemIDs :
         LET q == Get(bids, i, <<>>)
         IN  Len(q) > 0 =>
               /\ \A j, k \in 1..Len(q) : j < k => q[j].CreatedAt <= q[k].CreatedAt
               /\ \E k \in MaxPositions(q) :
                    /\ \A j \in MaxPositions(q) : k <= j
                    /\ GetWinningBid(repo, i) = [bid |-> q[k], err |-> NoError]
                    /\ (Done(Caller, "BiddingService.GetWinningBid")
                          /\ call[Caller].itemID = i) =>
                         res[Caller] = Result(q[k], NoError)
    /\ (Done(Caller, "PlaceBid") /\ call[Caller].win.err = NoError
          /\ call[Caller].amount = call[Caller].win.bid.Amount) =>
         /\ res[Caller].err = ErrBidTooLow
         /\ GetWinningBid(repo, call[Caller].itemID) = call[Caller].win

\* C20 witness: an item has two bids of equal amount, of bidder A then of
\* bidder B, and the service's GetWinningBid has returned A's.
C20_Witness ==
    /\ Done(Caller, "BiddingService.GetWinningBid")
    /\ LET q == Get(bids, call[Caller].itemID, <<>>)
       IN  /\ Len(q) = 2
           /\ q[1].Amount = q[2].Amount
           /\ q[1].UserID # q[2].UserID
           /\ res[Caller] = Result(q[1], NoError)

\* C21: a PlaceBid of non-empty ids and an amount > 0 whose winner query
\* reported ErrNoBids is accepted when its item exists, whatever the item's
\* starting price: the call returns the bid of the supplied amount, and never
\* ErrBidTooLow or ErrInvalidBid.
C21_FirstBidAccepted ==
    [][\A p \in Procs :
         (/\ call[p].op = "PlaceBid"
          /\ pc[p] # "done" /\ pc'[p] = "done"
          /\ call'[p].win.err = ErrNoBids
          /\ call[p].itemID \in DOMAIN items)
         => /\ res'[p].err = NoError
            /\ res'[p].bid.Amount = call[p].amount
            /\ call[p].amount > 0]_vars

\* C21 witness: the first bid on an item has been accepted with an amount
\* below the item's starting price.
C21_Witness ==
    \E p \in Procs :
      /\ Done(p, "PlaceBid")
      /\ res[p].err = NoError
      /\ call[p].win.err = ErrNoBids
      /\ \E k \in 1..Len(log) : log[k].bid = res[p].bid /\ log[k].before = <<>>
      /\ call[p].amount < items[call[p].itemID].StartingPrice

\* C22 as stated: once an item identifier is in the Item collection, the Item
\* stored under it never changes and is never removed, whatever the operation.
C22_AsStated ==
    [][\A i \in DOMAIN items : i \in DOMAIN items' /\ items'[i] = items[i]]_vars

\* C22: an item identifier in the Item collection is never removed, and the
\* Item stored under it changes only by an AddItem of that identifier, which
\* replaces it with the Item given; RecordBidForItem, PlaceBid and the reads
\* never change it.
C22_ItemsOnlyChangedByAddItem ==
    [][\A i \in DOMAIN items :
         /\ i \in DOMAIN items'
         /\ items'[i] # items[i] =>
              \E p \in Procs :
                /\ pc[p] = "wcs" /\ call[p].op = "AddItem"
                /\ call[p].item.ItemID = i
                /\ items'[i] = call[p].item]_vars

\* C22 witness: AddItem has replaced the seeded item, which has a bid, with an
\* Item of another starting price.
C22_Witness ==
    \E p \in Procs :
      /\ Done(p, "AddItem")
      /\ call[p].item.ItemID = SeedItemID
      /\ items[SeedItemID] = call[p].item
      /\ items[SeedItemID] # SeedItem
      /\ Len(Get(bids, SeedItemID, <<>>)) > 0

\* C23: a successful PlaceBid returns a Bid whose item id, bidder id and amount
\* are the arguments, and that Bid (identifier and timestamp included) is the
\* one element the call appended to the item's sequence, where it stays, once;
\* an unsuccessful PlaceBid returns the zero Bid.
C23_ReturnsTheRecordedBid ==
    /\ [](\A p \in Procs :
            Done(p, "PlaceBid") =>
              IF res[p].err = NoError
              THEN /\ res[p].bid.ItemID = call[p].itemID
                   /\ res[p].bid.UserID = call[p].userID
                   /\ res[p].bid.Amount = call[p].amount
                   /\ LET q == Get(bids, call[p].itemID, <<>>)
                      IN  Cardinality({k \in 1..Len(q) : q[k] = res[p].bid}) = 1
              ELSE res[p].bid = ZeroBid)
    /\ [][\A p \in Procs :
            (call[p].op = "PlaceBid" /\ pc[p] = "wcs" /\ pc'[p] = "done"
               /\ res'[p].err = NoError) =>
              bids' = Put(bids, call[p].itemID,
                          Append(Get(bids, call[p].itemID, <<>>), res'[p].bid))]_vars

\* C23 witness: two PlaceBid calls on one item have succeeded, and the second
\* caller holds the bid that is second in the item's sequence.
C23_Witness ==
    \E p \in Procs :
      /\ Done(p, "PlaceBid")
      /\ res[p].err = NoError
      /\ LET q == Get(bids, call[p].itemID, <<>>)
         IN  Len(q) = 2 /\ q[2] = res[p].bid /\ q[1].UserID # q[2].UserID

\* ------------------------------------ sequential records on two items
\* One caller records at most MaxRecordCalls bids, one after the other, in a
\* repository seeded with two items.
MaxRecordCalls == 3

NextRecord ==
    \/ /\ calls < MaxRecordCalls
       /\ \E b \in StoreBids : CallRecordBidForItem(Caller, b)
    \/ Lock(Caller)
    \/ RecordBid(Caller)
    \/ Return(Caller)

SpecRecord == InitStore /\ [][NextRecord]_vars

\* Caller p takes the step in which its RecordBidForItem (its own call or
\* PlaceBid's) returns.
RecordReturns(p) ==
    /\ pc[p] = "wcs" /\ pc'[p] = "done"
    /\ call[p].op \in {"PlaceBid", "RecordBidForItem"}

\* C27: a successful RecordBidForItem(bid) appends exactly the bid to the end
\* of the sequence of bid.ItemID, appends bid.ItemID to the item list of
\* bid.UserID if and only if it is not already there, and leaves unchanged the
\* Item collection, every other item's sequence and every other bidder's list.
C27_RecordFrame ==
    [][\A p \in Procs :
         (RecordReturns(p) /\ res'[p].err = NoError) =>
           LET b == call[p].bid
               list == Get(userItems, b.UserID, <<>>)
           IN  /\ Get(bids', b.ItemID, <<>>) = Append(Get(bids, b.ItemID, <<>>), b)
               /\ \A i \in (DOMAIN bids \cup DOMAIN bids') \ {b.ItemID} :
                    i \in DOMAIN bids /\ i \in DOMAIN bids' /\ bids'[i] = bids[i]
               /\ Get(userItems', b.UserID, <<>>) =
                    IF b.ItemID \in Elems(list) THEN list ELSE Append(list, b.ItemID)
               /\ \A u \in (DOMAIN userItems \cup DOMAIN userItems') \ {b.UserID} :
                    u \in DOMAIN userItems /\ u \in DOMAIN userItems'
                      /\ userItems'[u] = userItems[u]
               /\ items' = items]_vars

\* C27 witness: a bidder's second bid on an item has been recorded after
\* another bidder's bid on the other item: the item's sequence has the two
\* bids, the bidder's list has the item once, and the other item's sequence
\* and the other bidder's list are as they were.
C27_Witness ==
    \E p \in Procs :
      /\ Done(p, "RecordBidForItem")
      /\ res[p].err = NoError
      /\ Len(log) = 3
      /\ log[3].bid = call[p].bid
      /\ log[1].bid.ItemID = call[p].bid.ItemID
      /\ log[1].bid.UserID = call[p].bid.UserID
      /\ log[2].bid.ItemID # call[p].bid.ItemID
      /\ log[2].bid.UserID # call[p].bid.UserID
      /\ bids[call[p].bid.ItemID] = <<log[1].bid, call[p].bid>>
      /\ userItems[call[p].bid.UserID] = <<call[p].bid.ItemID>>
      /\ bids[log[2].bid.ItemID] = <<log[2].bid>>
      /\ userItems[log[2].bid.UserID] = <<log[2].bid.ItemID>>
      /\ items = [i \in {SeedItemID, SeedItem2.ItemID} |->
                    IF i = SeedItemID THEN SeedItem ELSE SeedItem2]

\* C28: a RecordBidForItem or PlaceBid call that returns an error leaves the
\* three collections of the Store as they were: the step in which it returns
\* changes none of them, and no step changes any of them but the return of a
\* successful RecordBidForItem and AddItem.
C28_ErrorsLeaveStoreUnchanged ==
    [][/\ \A p \in Procs :
            (/\ call'[p].op \in {"PlaceBid", "RecordBidForItem"}
             /\ pc[p] # "done" /\ pc'[p] = "done"
             /\ res'[p].err # NoError)
            => store' = store
       /\ store' # store =>
            \E p \in Procs :
              /\ pc[p] = "wcs" /\ pc'[p] = "done"
              /\ res'[p].err = NoError]_vars

\* C28 witness: a RecordBidForItem has been rejected with ErrItemNotFound;
\* the item has no sequence and the bidder no list, while another bid is
\* recorded.
C28_Witness ==
    \E p \in Procs :
      /\ Done(p, "RecordBidForItem")
      /\ res[p].err = ErrItemNotFound
      /\ call[p].bid.ItemID \notin DOMAIN bids
      /\ call[p].bid.UserID \notin DOMAIN userItems
      /\ Len(log) > 0

\* C29: the Store validates nothing but the item's existence.  RecordBidForItem
\* fails exactly when the item does not exist; for an existing item it
\* succeeds whatever the amount (zero, negative, very large), the timestamp
\* (past, future) and the bidder id (empty), and the bid is then among those
\* GetBidsByItem returns for the item.
C29_StoreChecksExistenceOnly ==
    \A p \in Procs :
      Done(p, "RecordBidForItem") =>
        /\ res[p].err = NoError <=> call[p].bid.ItemID \in DOMAIN items
        /\ res[p].err # NoError => res[p].err = ErrItemNotFound
        /\ res[p].err = NoError =>
             LET got == GetBidsByItem(repo, call[p].bid.ItemID)
             IN  got.err = NoError /\ call[p].bid \in Elems(got.bids)

\* C29 witness: a bid without a bidder, of a non-positive amount and with a
\* timestamp before the clock's has been recorded, and GetBidsByItem has
\* returned it to the other caller.
C29_Witness ==
    \E p, q \in Procs :
      /\ Done(p, "RecordBidForItem")
      /\ res[p].err = NoError
      /\ call[p].bid.UserID = ""
      /\ call[p].bid.Amount <= 0
      /\ call[p].bid.CreatedAt < now
      /\ Done(q, "GetBidsByItem")
      /\ call[p].bid \in Elems(res[q].list)

\* ------------------------------------------------------- the HTTP boundary
\* The handlers call the service through BiddingServiceInterface and the
\* service calls the Store through AuctionDB.  In main the service is a
\* BiddingService over the MemoryRepo; in the tests the Store is a mock in
\* which one method fails, or the service is a mock that returns an error.
\* Two clients send at most MaxRequests requests between them; the server
\* handles each request in a goroutine of its own, so the Store calls of two
\* requests interleave wherever the mutex is free.
MaxRequests == 3

\* The error a failing mock Store returns, and the one ShouldBindJSON returns.
DbFailure == errorsNew("db failure")
BindError == errorsNew("binding")

\* fault: the AuctionDB method that fails, or "none" (the MemoryRepo).
Faults == {"none", "GetWinningBid", "RecordBidForItem", "GetBidsByItem", "GetItemsByUser"}
\* The errors a mock service returns.
MockErrors == {Sentinel(k) : k \in Sentinels} \cup {errorsNew("database failure")}
Backends ==
    {[svc |-> "BiddingService", fault |-> f, ret |-> Nil] : f \in Faults}
      \cup {[svc |-> "mock", fault |-> "none", ret |-> e] : e \in MockErrors}

\* The bodies of POST /bids: one that is no JSON of a PlaceBidRequest, the
\* PlaceBidRequests in which one field is missing or not positive, and those
\* that bind.
Malformed == [wellFormed |-> FALSE, ItemID |-> "", UserID |-> "", Amount |-> 0]
PlaceBidRequest(itemID, userID, amount) ==
    [wellFormed |-> TRUE, ItemID |-> itemID, UserID |-> userID, Amount |-> amount]
Requests ==
    {Malformed, PlaceBidRequest("", "u1", 1), PlaceBidRequest(SeedItemID, "", 1),
     PlaceBidRequest(SeedItemID, "u1", 0)}
      \cup {PlaceBidRequest(i, "u1", a) : i \in ItemIDs \ {""}, a \in {1, 2}}

\* The AuctionDB methods as the service sees them: the MemoryRepo's, with the
\* error values it builds, or the mock's failure.
AuctionDB_RecordBidForItem(fault, r, bid) ==
    IF fault = "RecordBidForItem"
    THEN [repo |-> r, err |-> DbFailure]
    ELSE LET out == RecordBidForItem(r, bid)
         IN  [repo |-> out.repo,
              err |-> IF out.err = NoError
                      THEN Nil
                      ELSE Errorf("record bid for item", Sentinel(out.err))]

AuctionDB_GetBidsByItem(fault, r, itemID) ==
    IF fault = "GetBidsByItem"
    THEN [bids |-> <<>>, err |-> DbFailure]
    ELSE LET out == GetBidsByItem(r, itemID)
         IN  [bids |-> out.bids,
              err |-> IF out.err = NoError
                      THEN Nil
                      ELSE Errorf("get bids for item", Sentinel(out.err))]

AuctionDB_GetWinningBid(fault, r, itemID) ==
    IF fault = "GetWinningBid"
    THEN [bid |-> ZeroBid, err |-> DbFailure]
    ELSE LET out == GetWinningBid(r, itemID)
         IN  [bid |-> out.bid,
              err |-> IF out.err = NoError
                      THEN Nil
                      ELSE Errorf("get winning bid for item", Sentinel(out.err))]

AuctionDB_GetItemsByUser(fault, r, userID) ==
    IF fault = "GetItemsByUser"
    THEN [items |-> <<>>, err |-> DbFailure]
    ELSE LET out == GetItemsByUser(r, userID)
         IN  [items |-> out.items,
              err |-> IF out.err = NoError
                      THEN Nil
                      ELSE Errorf("get items for user", Sentinel(out.err))]

\* A faulty variant of BiddingService.validateBid: every failure of the
\* winner query is passed over as ErrNoBids is.
BiddingService_validateBid_SwallowsFailure(fault, r, itemID, userID, amount) ==
    IF itemID = "" \/ userID = ""
    THEN [err |-> Errorf("service: missing itemID or userID", Sentinel(ErrInvalidBid)),
          dbErr |-> Nil, trace |-> <<>>]
    ELSE IF amount <= 0
    THEN [err |-> Errorf("service: non-positive bid amount", Sentinel(ErrInvalidBid)),
          dbErr |-> Nil, trace |-> <<>>]
    ELSE LET win == AuctionDB_GetWinningBid(fault, r, itemID)
         IN  [err |-> IF win.err = Nil /\ amount <= win.bid.Amount
                      THEN Errorf("service: current highest bid", Sentinel(ErrBidTooLow))
                      ELSE Nil,
              dbErr |-> win.err, trace |-> <<"GetWinningBid">>]

\* BiddingService.validateBid with its error values.  dbErr is the error the
\* Store returned, trace the Store methods called.
BiddingService_validateBid(fault, r, itemID, userID, amount) ==
    IF itemID = "" \/ userID = ""
    THEN [err |-> Errorf("service: missing itemID or userID", Sentinel(ErrInvalidBid)),
          dbErr |-> Nil, trace |-> <<>>]
    ELSE IF amount <= 0
    THEN [err |-> Errorf("service: non-positive bid amount", Sentinel(ErrInvalidBid)),
          dbErr |-> Nil, trace |-> <<>>]
    ELSE LET win == AuctionDB_GetWinningBid(fault, r, itemID)
         IN  [err |-> IF win.err = Nil
                      THEN IF amount <= win.bid.Amount
                           THEN Errorf("service: current highest bid",
                                       Sentinel(ErrBidTooLow))
                           ELSE Nil
                      ELSE IF ~errorsIs(win.err, Sentinel(ErrNoBids))
                           THEN Errorf("service: failed to check winning bid", win.err)
                           ELSE Nil,
              dbErr |-> win.err, trace |-> <<"GetWinningBid">>]

\* What validateBid returns when the Store's GetWinningBid found no bid that
\* the amount fails to exceed.
Passed == [err |-> Nil, dbErr |-> Nil, trace |-> <<"GetWinningBid">>]

\* BiddingService.PlaceBid.  v is what validateBid returned, r the repository
\* as it is when RecordBidForItem runs (the mutex is free between the two),
\* id and t are what utils.GenerateID and time.Now return.
BiddingService_PlaceBid(v, fault, r, itemID, userID, amount, id, t) ==
    IF v.err # Nil
    THEN [repo |-> r, bid |-> ZeroBid, err |-> v.err, dbErr |-> v.dbErr,
          trace |-> v.trace]
    ELSE LET bid == Bid(id, itemID, userID, amount, t)
             out == AuctionDB_RecordBidForItem(fault, r, bid)
         IN  IF out.err # Nil
             THEN [repo |-> out.repo, bid |-> ZeroBid,
                   err |-> Errorf("service: failed to record bid for item", out.err),
                   dbErr |-> out.err,
                   trace |-> Append(v.trace, "RecordBidForItem")]
             ELSE [repo |-> out.repo, bid |-> bid, err |-> Nil, dbErr |-> Nil,
                   trace |-> Append(v.trace, "RecordBidForItem")]

\* BiddingService.GetBidsForItem.
BiddingService_GetBidsForItem(fault, r, itemID) ==
    IF itemID = ""
    THEN [list |-> <<>>, err |-> Errorf("service: empty item ID", Sentinel(ErrInvalidBid)),
          dbErr |-> Nil, trace |-> <<>>]
    ELSE LET out == AuctionDB_GetBidsByItem(fault, r, itemID)
         IN  IF out.err # Nil
             THEN [list |-> <<>>,
                   err |-> Errorf("service: failed to get bids for item", out.err),
                   dbErr |-> out.err, trace |-> <<"GetBidsByItem">>]
             ELSE [list |-> out.bids, err |-> Nil, dbErr |-> Nil,
                   trace |-> <<"GetBidsByItem">>]

\* BiddingService.GetWinningBid.
BiddingService_GetWinningBid(fault, r, itemID) ==
    IF itemID = ""
    THEN [bid |-> ZeroBid, err |-> Errorf("service: empty item ID", Sentinel(ErrInvalidBid)),
          dbErr |-> Nil, trace |-> <<>>]
    ELSE LET out == AuctionDB_GetWinningBid(fault, r, itemID)
         IN  IF out.err # Nil
             THEN [bid |-> ZeroBid,
                   err |-> Errorf("service: failed to get winning bid for item", out.err),
                   dbErr |-> out.err, trace |-> <<"GetWinningBid">>]
             ELSE [bid |-> out.bid, err |-> Nil, dbErr |-> Nil,
                   trace |-> <<"GetWinningBid">>]

\* A faulty variant of BiddingService.GetItemsByUser: the empty user id is
\* passed on to the Store.
BiddingService_GetItemsByUser_NoCheck(fault, r, userID) ==
    LET out == AuctionDB_GetItemsByUser(fault, r, userID)
    IN  IF out.err # Nil
        THEN [list |-> <<>>,
              err |-> Errorf("service: failed to get items for user", out.err),
              dbErr |-> out.err, trace |-> <<"GetItemsByUser">>]
        ELSE [list |-> out.items, err |-> Nil, dbErr |-> Nil,
              trace |-> <<"GetItemsByUser">>]

\* BiddingService.GetItemsByUser.
BiddingService_GetItemsByUser(fault, r, userID) ==
    IF userID = ""
    THEN [list |-> <<>>, err |-> Errorf("service: empty user ID", Sentinel(ErrInvalidBid)),
          dbErr |-> Nil, trace |-> <<>>]
    ELSE LET out == AuctionDB_GetItemsByUser(fault, r, userID)
         IN  IF out.err # Nil
             THEN [list |-> <<>>,
                   err |-> Errorf("service: failed to get items for user", out.err),
                   dbErr |-> out.err, trace |-> <<"GetItemsByUser">>]
             ELSE [list |-> out.items, err |-> Nil, dbErr |-> Nil,
                   trace |-> <<"GetItemsByUser">>]

\* What a mock service returns from any of its methods.
MockReturn(backend, r) ==
    [repo |-> r, bid |-> ZeroBid, list |-> <<>>, err |-> backend.ret,
     dbErr |-> Nil, trace |-> <<>>]

\* A faulty variant of MapErrorToHTTP: ErrBidTooLow is answered like
\* ErrInvalidBid.
MapErrorToHTTP_TooLowIsBadRequest(err) ==
    IF errorsIs(err, Sentinel(ErrItemNotFound))
    THEN [status |-> 404, message |-> "item not found"]
    ELSE IF errorsIs(err, Sentinel(ErrInvalidBid)) \/ errorsIs(err, Sentinel(ErrBidTooLow))
    THEN [status |-> 400, message |-> "invalid bid details"]
    ELSE IF errorsIs(err, Sentinel(ErrNoBids))
    THEN [status |-> 200, message |-> "no bids found for item"]
    ELSE IF errorsIs(err, Sentinel(ErrUserNoBids))
    THEN [status |-> 200, message |-> "no items found for user"]
    ELSE [status |-> 500, message |-> "internal server error"]

\* helpers.MapErrorToHTTP: the first case of the switch that matches.
MapErrorToHTTP(err) ==
    IF errorsIs(err, Sentinel(ErrItemNotFound))
    THEN [status |-> 404, message |-> "item not found"]
    ELSE IF errorsIs(err, Sentinel(ErrInvalidBid))
    THEN [status |-> 400, message |-> "invalid bid details"]
    ELSE IF errorsIs(err, Sentinel(ErrBidTooLow))
    THEN [status |-> 409, message |-> "bid amount too low"]
    ELSE IF errorsIs(err, Sentinel(ErrNoBids))
    THEN [status |-> 200, message |-> "no bids found for item"]
    ELSE IF errorsIs(err, Sentinel(ErrUserNoBids))
    THEN [status |-> 200, message |-> "no items found for user"]
    ELSE [status |-> 500, message |-> "internal server error"]

\* The error response of a handler: the mapped status and message, with the
\* error wrapped in the message.
MappedError(err) ==
    LET m == MapErrorToHTTP(err)
    IN  JSONError(m.status, Errorf(m.message, err), m.message)

\* c.ShouldBindJSON into a PlaceBidRequest: the body is JSON, item_id and
\* user_id are there and not empty (binding:"required"), and amount is there
\* and positive (binding:"required,gt=0").
ShouldBindJSON(req) ==
    req.wellFormed /\ req.ItemID # "" /\ req.UserID # "" /\ req.Amount > 0

\* BiddingHandler.RecordBidHandler.  v and r are as in
\* BiddingService_PlaceBid; svc is what the service call returned.
RecordBidHandler(backend, v, r, req, id, t) ==
    IF ~ShouldBindJSON(req)
    THEN [svc |-> MockReturn([ret |-> Nil], r), bound |-> FALSE,
          res |-> JSONError(400, Errorf("invalid request payload", BindError),
                            "invalid request payload")]
    ELSE LET svc == IF backend.svc = "mock"
                    THEN MockReturn(backend, r)
                    ELSE BiddingService_PlaceBid(v, backend.fault, r, req.ItemID,
                                                  req.UserID, req.Amount, id, t)
                            @@ [list |-> <<>>]
         IN  [svc |-> svc, bound |-> TRUE,
              res |-> IF svc.err # Nil
                      THEN MappedError(svc.err)
                      ELSE JSONResponse(201, svc.bid, <<>>, "bid recorded successfully")]

\* A faulty variant of GetBidsByItemHandler: ErrNoBids is answered like the
\* other errors.
GetBidsByItemHandler_NoBidsIsError(backend, r, itemID) ==
    LET svc == IF backend.svc = "mock"
               THEN MockReturn(backend, r)
               ELSE BiddingService_GetBidsForItem(backend.fault, r, itemID)
                       @@ [repo |-> r, bid |-> ZeroBid]
    IN  [svc |-> svc, bound |-> TRUE,
         res |-> IF svc.err # Nil
                 THEN MappedError(svc.err)
                 ELSE JSONResponse(200, ZeroBid, svc.list, "bids retrieved successfully")]

\* BiddingHandler.GetBidsByItemHandler.
GetBidsByItemHandler(backend, r, itemID) ==
    LET svc == IF backend.svc = "mock"
               THEN MockReturn(backend, r)
               ELSE BiddingService_GetBidsForItem(backend.fault, r, itemID)
                       @@ [repo |-> r, bid |-> ZeroBid]
    IN  [svc |-> svc, bound |-> TRUE,
         res |-> IF svc.err # Nil /\ ~errorsIs(svc.err, Sentinel(ErrNoBids))
                 THEN MappedError(svc.err)
                 ELSE JSONResponse(200, ZeroBid, svc.list, "bids retrieved successfully")]

\* A faulty variant of GetWinningBidHandler: ErrNoBids is answered as
\* MapErrorToHTTP maps it.
GetWinningBidHandler_NoBidsMapped(backend, r, itemID) ==
    LET svc == IF backend.svc = "mock"
               THEN MockReturn(backend, r)
               ELSE BiddingService_GetWinningBid(backend.fault, r, itemID)
                       @@ [repo |-> r, list |-> <<>>]
    IN  [svc |-> svc, bound |-> TRUE,
         res |-> IF svc.err # Nil
                 THEN MappedError(svc.err)
                 ELSE JSONResponse(200, svc.bid, <<>>, "winning bid retrieved successfully")]

\* BiddingHandler.GetWinningBidHandler.
GetWinningBidHandler(backend, r, itemID) ==
    LET svc == IF backend.svc = "mock"
               THEN MockReturn(backend, r)
               ELSE BiddingService_GetWinningBid(backend.fault, r, itemID)
                       @@ [repo |-> r, list |-> <<>>]
    IN  [svc |-> svc, bound |-> TRUE,
         res |-> IF svc.err # Nil
                 THEN IF errorsIs(svc.err, Sentinel(ErrNoBids))
                      THEN JSONError(404, svc.err, "no winning bid found")
                      ELSE MappedError(svc.err)
                 ELSE JSONResponse(200, svc.bid, <<>>, "winning bid retrieved successfully")]

\* BiddingHandler.GetItemsByUserHandler.
GetItemsByUserHandler(backend, r, userID) ==
    LET svc == IF backend.svc = "mock"
               THEN MockReturn(backend, r)
               ELSE BiddingService_GetItemsByUser(backend.fault, r, userID)
                       @@ [repo |-> r, bid |-> ZeroBid]
    IN  [svc |-> svc, bound |-> TRUE,
         res |-> IF svc.err # Nil /\ ~errorsIs(svc.err, Sentinel(ErrUserNoBids))
                 THEN MappedError(svc.err)
                 ELSE JSONResponse(200, ZeroBid, svc.list, "items retrieved successfully")]

\* The routes of server.SetupRouter.
PostBids == "POST /bids"
GetBids == "GET /items/:item_id/bids"
GetWinning == "GET /items/:item_id/winning"
GetUserItems == "GET /users/:user_id/items"

\* The Store method behind each route that reads.
StoreMethod(op) ==
    IF op = GetBids THEN "GetBidsByItem"
    ELSE IF op = GetWinning THEN "GetWinningBid"
    ELSE "GetItemsByUser"

\* The handler of a route that reads, on the repository r.
ReadHandler(op, backend, r, itemID, userID) ==
    IF op = GetBids THEN GetBidsByItemHandler(backend, r, itemID)
    ELSE IF op = GetWinning THEN GetWinningBidHandler(backend, r, itemID)
    ELSE GetItemsByUserHandler(backend, r, userID)

\* A request whose service call is about to call the MemoryRepo: the handler
\* is bound to a BiddingService, the arguments passed the service's checks,
\* and the Store method called is not one that fails.
Request(op, itemID, userID, amount, backend) ==
    [Call(op, itemID, userID, amount, ZeroBid, ZeroItem)
       EXCEPT !.http = [backend |-> backend, bound |-> TRUE,
                        svcErr |-> Nil, dbErr |-> Nil]]

\* The handler writes its response h.res: what the service call returned is
\* kept with the call c, and the caller has the response.
Respond(p, c, h) ==
    /\ call' = [call EXCEPT ![p] =
                  [c EXCEPT !.bid = h.svc.bid, !.trace = h.svc.trace,
                            !.http = [backend |-> c.http.backend, bound |-> h.bound,
                                      svcErr |-> h.svc.err, dbErr |-> h.svc.dbErr]]]
    /\ res' = [res EXCEPT ![p] = h.res]
    /\ pc' = [pc EXCEPT ![p] = "done"]

\* POST /bids arrives: RecordBidHandler binds the body and calls PlaceBid,
\* whose validateBid checks the arguments and calls the Store's GetWinningBid.
\* The request is answered at once when the body does not bind and when the
\* service is a mock.  A Store whose GetWinningBid fails returns without the
\* MemoryRepo's lock: the request is answered if validateBid returns an error
\* and PlaceBid goes on to build the bid if not.  Otherwise the call goes on
\* to the MemoryRepo's read lock.
ServeRecordBid(p, req, backend) ==
    /\ pc[p] = "idle"
    /\ calls' = calls + 1
    /\ LET c == Request(PostBids, req.ItemID, req.UserID, req.Amount, backend)
           v == BiddingService_validateBid(backend.fault, repo, req.ItemID,
                                           req.UserID, req.Amount)
           h == RecordBidHandler(backend, v, repo, req, "", now)
       IN  IF \/ ~ShouldBindJSON(req)
              \/ backend.svc = "mock"
              \/ backend.fault = "GetWinningBid" /\ v.err # Nil
           THEN Respond(p, c, h)
           ELSE /\ call' = [call EXCEPT ![p] =
                              [c EXCEPT !.trace = <<"GetWinningBid">>,
                                        !.http.dbErr =
                                           IF backend.fault = "GetWinningBid"
                                           THEN v.dbErr ELSE Nil]]
                /\ pc' = [pc EXCEPT ![p] =
                             IF backend.fault = "GetWinningBid" THEN "new" ELSE "rlock"]
                /\ res' = res
    /\ UNCHANGED <<store, mu, now, nextID, log>>

\* POST /bids, validateBid's repo.GetWinningBid under the read lock (released
\* on return) and its comparison of the amount with the winner's: the request
\* is answered when validateBid returns an error.
ServeValidateBid(p) ==
    /\ pc[p] = "rcs"
    /\ call[p].op = PostBids
    /\ mu' = [mu EXCEPT !.readers = @ \ {p}]
    /\ LET c == [call[p] EXCEPT !.seen = Get(bids, call[p].itemID, <<>>),
                                !.win = GetWinningBid(repo, call[p].itemID)]
           req == PlaceBidRequest(c.itemID, c.userID, c.amount)
           v == BiddingService_validateBid(c.http.backend.fault, repo, c.itemID,
                                           c.userID, c.amount)
       IN  IF v.err # Nil
           THEN Respond(p, c, RecordBidHandler(c.http.backend, v, repo, req, "", now))
           ELSE /\ call' = [call EXCEPT ![p] = [c EXCEPT !.http.dbErr = v.dbErr]]
                /\ pc' = [pc EXCEPT ![p] = "new"]
                /\ res' = res
    /\ UNCHANGED <<store, now, nextID, calls, log>>

\* POST /bids, PlaceBid builds the bid (utils.GenerateID, time.Now) and calls
\* the Store's RecordBidForItem: one that fails answers the request, the
\* MemoryRepo's goes on to the write lock.  t is what time.Now returns.
ServeNewBid(p, t) ==
    /\ pc[p] = "new"
    /\ call[p].op = PostBids
    /\ nextID' = nextID + 1
    /\ now' = t
    /\ LET c == call[p]
           req == PlaceBidRequest(c.itemID, c.userID, c.amount)
           id == GenerateID(nextID + 1)
       IN  IF c.http.backend.fault = "RecordBidForItem"
           THEN Respond(p, c, RecordBidHandler(c.http.backend, Passed, repo, req, id, t))
           ELSE /\ call' = [call EXCEPT
                              ![p].bid = Bid(id, c.itemID, c.userID, c.amount, t),
                              ![p].trace = Append(@, "RecordBidForItem")]
                /\ pc' = [pc EXCEPT ![p] = "wlock"]
                /\ res' = res
    /\ UNCHANGED <<store, mu, calls, log>>

\* POST /bids, repo.RecordBidForItem under the write lock (released on
\* return), PlaceBid's return and the handler's response.
ServeRecordBidForItem(p) ==
    /\ pc[p] = "wcs"
    /\ call[p].op = PostBids
    /\ mu' = [mu EXCEPT !.writer = NoProc]
    /\ LET c == call[p]
           req == PlaceBidRequest(c.itemID, c.userID, c.amount)
           h == RecordBidHandler(c.http.backend, Passed, repo, req, c.bid.BidID,
                                 c.bid.CreatedAt)
       IN  /\ bids' = h.svc.repo.bids
           /\ items' = h.svc.repo.items
           /\ userItems' = h.svc.repo.userItems
           /\ Respond(p, c, h)
           /\ log' = IF h.svc.err = Nil
                     THEN Append(log, [bid |-> h.svc.bid, via |-> "PlaceBid",
                                       seen |-> c.seen,
                                       before |-> Get(bids, c.itemID, <<>>)])
                     ELSE log
    /\ UNCHANGED <<now, nextID, calls>>

\* A GET request arrives: the handler takes the id from the path and calls
\* the service.  The request is answered at once when the service is a mock,
\* when the service rejects the id and when the Store's method is one that
\* fails; otherwise the call goes on to the MemoryRepo's read lock.
ServeRead(p, op, itemID, userID, backend) ==
    /\ pc[p] = "idle"
    /\ calls' = calls + 1
    /\ LET c == Request(op, itemID, userID, 0, backend)
           h == ReadHandler(op, backend, repo, itemID, userID)
       IN  IF \/ backend.svc = "mock"
              \/ backend.fault = StoreMethod(op)
              \/ (IF op = GetUserItems THEN userID ELSE itemID) = ""
           THEN Respond(p, c, h)
           ELSE /\ call' = [call EXCEPT ![p] = [c EXCEPT !.trace = <<StoreMethod(op)>>]]
                /\ pc' = [pc EXCEPT ![p] = "rlock"]
                /\ res' = res
    /\ UNCHANGED <<store, mu, now, nextID, log>>

\* GET /items/:item_id/bids.
ServeGetBidsByItem(p, itemID, backend) == ServeRead(p, GetBids, itemID, "", backend)

\* GET /items/:item_id/winning.
ServeGetWinningBid(p, itemID, backend) == ServeRead(p, GetWinning, itemID, "", backend)

\* GET /users/:user_id/items.
ServeGetItemsByUser(p, userID, backend) == ServeRead(p, GetUserItems, "", userID, backend)

\* A GET request, the MemoryRepo's method under the read lock (released on
\* return), the service's return and the handler's response.
ServeReadStore(p) ==
    /\ pc[p] = "rcs"
    /\ call[p].op \in {GetBids, GetWinning, GetUserItems}
    /\ mu' = [mu EXCEPT !.readers = @ \ {p}]
    /\ LET c == [call[p] EXCEPT !.seen = Get(bids, call[p].itemID, <<>>)]
       IN  Respond(p, c, ReadHandler(c.op, c.http.backend, repo, c.itemID, c.userID))
    /\ UNCHANGED <<store, now, nextID, calls, log>>

\* The wiring of main: a BiddingService over the MemoryRepo.
MainBackend == [svc |-> "BiddingService", fault |-> "none", ret |-> Nil]

\* What the two clients send.  The first sends any request to a router of any
\* wiring; the second is another client of the server that main starts, which
\* bids on the first seeded item and asks for its winner.
BackendsOf(p) == IF p = Caller THEN Backends ELSE {MainBackend}
RequestsOf(p) ==
    IF p = Caller
    THEN Requests
    ELSE {PlaceBidRequest(SeedItemID, "u1", a) : a \in {1, 2}}
ItemIDsOf(p) == IF p = Caller THEN ItemIDs ELSE {SeedItemID}

\* The clients send at most MaxRequests requests; each sends its next request
\* when it has the response to the last.
NextHTTP ==
    \/ /\ calls < MaxRequests
       /\ \E p \in Procs : \E req \in RequestsOf(p), b \in BackendsOf(p) :
            ServeRecordBid(p, req, b)
    \/ \E p \in Procs : ServeValidateBid(p)
    \/ \E p \in Procs, t \in {now, now + 1} : ServeNewBid(p, t)
    \/ \E p \in Procs : ServeRecordBidForItem(p)
    \/ /\ calls < MaxRequests
       /\ \E i \in ItemIDs, b \in Backends : ServeGetBidsByItem(Caller, i, b)
    \/ /\ calls < MaxRequests
       /\ \E p \in Procs : \E i \in ItemIDsOf(p), b \in BackendsOf(p) :
            ServeGetWinningBid(p, i, b)
    \/ /\ calls < MaxRequests
       /\ \E u \in UserIDs, b \in Backends : ServeGetItemsByUser(Caller, u, b)
    \/ \E p \in Procs : ServeReadStore(p)
    \/ \E p \in Procs : RLock(p)
    \/ \E p \in Procs : Lock(p)
    \/ \E p \in Procs : LockAcquired(p)
    \/ \E p \in Procs : Return(p)

SpecHTTP == Init /\ [][NextHTTP]_vars

\* The caller's request op has been served by the handlers wired as in main:
\* a BiddingService over the MemoryRepo.
ServedByMain(op) ==
    /\ Done(Caller, op)
    /\ call[Caller].http.backend = [svc |-> "BiddingService", fault |-> "none", ret |-> Nil]

\* The response is 200 with an empty list as data.
EmptyListOK(r) == r.status = 200 /\ r.body = "data" /\ r.list = <<>>

\* C24: GET /items/:item_id/bids answers 200 with an empty list when the
\* service reports ErrNoBids, and GET /users/:user_id/items when it reports
\* ErrUserNoBids; over the MemoryRepo that is the answer for every item id
\* without bids (unknown items included) and every user id without bids
\* (unknown users included).  Neither condition gets an error status.
C24_NoBidsIsEmptyList ==
    /\ Done(Caller, "GET /items/:item_id/bids") =>
         /\ errorsIs(call[Caller].http.svcErr, Sentinel(ErrNoBids))
              => EmptyListOK(res[Caller])
         /\ (/\ ServedByMain("GET /items/:item_id/bids")
             /\ call[Caller].itemID # ""
             /\ Get(bids, call[Caller].itemID, <<>>) = <<>>)
              => /\ errorsIs(call[Caller].http.svcErr, Sentinel(ErrNoBids))
                 /\ EmptyListOK(res[Caller])
    /\ Done(Caller, "GET /users/:user_id/items") =>
         /\ errorsIs(call[Caller].http.svcErr, Sentinel(ErrUserNoBids))
              => EmptyListOK(res[Caller])
         /\ (/\ ServedByMain("GET /users/:user_id/items")
             /\ call[Caller].userID # ""
             /\ Get(userItems, call[Caller].userID, <<>>) = <<>>)
              => /\ errorsIs(call[Caller].http.svcErr, Sentinel(ErrUserNoBids))
                 /\ EmptyListOK(res[Caller])

\* C24 witness: after a bid on the seeded item, the bids of an item that does
\* not exist have been asked for; the service reported ErrNoBids, wrapped by
\* the Store and by the service, and the answer is 200 with an empty list.
C24_Witness ==
    /\ ServedByMain("GET /items/:item_id/bids")
    /\ call[Caller].itemID \notin DOMAIN items
    /\ call[Caller].itemID # ""
    /\ Len(log) > 0
    /\ Len(call[Caller].http.svcErr) = 3
    /\ errorsIs(call[Caller].http.svcErr, Sentinel(ErrNoBids))
    /\ res[Caller].status = 200
    /\ res[Caller].list = <<>>

\* The winner among the bids q of an item, q not empty.
WinnerOf(q) == ScanWinning(Head(q), Tail(q))

\* C25 as stated: GET /items/:item_id/winning answers 404 whenever the item
\* has no recorded bids and 200 with the winning bid otherwise.  Not so: for
\* the empty item id the answer is 400.
C25_AsStated ==
    ServedByMain("GET /items/:item_id/winning") =>
      IF call[Caller].seen = <<>>
      THEN res[Caller].status = 404
      ELSE /\ res[Caller].status = 200
           /\ res[Caller].bid = WinnerOf(call[Caller].seen)

\* C25: GET /items/:item_id/winning answers 404 exactly when the service
\* reports ErrNoBids.  Over the MemoryRepo, for a non-empty item id, that is
\* whenever the item has no recorded bids when the Store is read (seen),
\* whether it exists or not, and the answer is 200 with the winning bid of
\* that moment otherwise; the empty item id is answered 400.
C25_NoWinnerIsNotFound ==
    Done(Caller, "GET /items/:item_id/winning") =>
      /\ errorsIs(call[Caller].http.svcErr, Sentinel(ErrNoBids))
           => /\ res[Caller].status = 404
              /\ res[Caller].message = "no winning bid found"
              /\ res[Caller].body = "error"
      /\ ServedByMain("GET /items/:item_id/winning") =>
           IF call[Caller].itemID = ""
           THEN res[Caller].status = 400
           ELSE IF call[Caller].seen = <<>>
           THEN /\ res[Caller].status = 404
                /\ errorsIs(call[Caller].http.svcErr, Sentinel(ErrNoBids))
           ELSE /\ res[Caller].status = 200
                /\ res[Caller].body = "data"
                /\ res[Caller].bid = WinnerOf(call[Caller].seen)

\* C25 witness: the winner of the seeded item, which exists and has no bids,
\* has been asked for while nothing is recorded, and the answer is 404.
C25_Witness ==
    /\ ServedByMain("GET /items/:item_id/winning")
    /\ call[Caller].itemID \in DOMAIN items
    /\ call[Caller].itemID \notin DOMAIN bids
    /\ calls > 1
    /\ res[Caller].status = 404

\* The error at the end of a chain: the one the wrapping started from.
Leaf(err) == err[Len(err)]

\* C26: the status of POST /bids is a function of the kind of the error the
\* service returned: 201 for nil, 404 for ErrItemNotFound, 400 for
\* ErrInvalidBid, 409 for ErrBidTooLow, 500 for an error of no kind.  It is
\* the status of the error the chain ends in, however often that was wrapped.
C26_StatusByKind ==
    (Done(Caller, "POST /bids") /\ call[Caller].http.bound) =>
      LET err == call[Caller].http.svcErr
          status == res[Caller].status
      IN  /\ err = Nil => status = 201 /\ res[Caller].bid = call[Caller].bid
          /\ err # Nil =>
               /\ Leaf(err) = ErrItemNotFound => status = 404
               /\ Leaf(err) = ErrInvalidBid => status = 400
               /\ Leaf(err) = ErrBidTooLow => status = 409
               /\ Leaf(err) \notin Sentinels => status = 500
               /\ call[Caller].http.dbErr # Nil =>
                    Leaf(err) = Leaf(call[Caller].http.dbErr)
               /\ res[Caller].body = "error"

\* C26 witness: a bid on an item that does not exist has been posted; the
\* Store's ErrItemNotFound, wrapped by the Store and by the service, is
\* answered 404.
C26_Witness ==
    /\ ServedByMain("POST /bids")
    /\ call[Caller].http.bound
    /\ call[Caller].itemID \notin DOMAIN items
    /\ Len(call[Caller].http.svcErr) = 3
    /\ Leaf(call[Caller].http.svcErr) = ErrItemNotFound
    /\ res[Caller].status = 404

\* C30: the error the BiddingService returns for a failure of the Store
\* wraps the Store's error, so it is of the same kind: ErrItemNotFound
\* from RecordBidForItem, ErrNoBids from GetBidsByItem and GetWinningBid,
\* ErrUserNoBids from GetItemsByUser.  A PlaceBid whose winner query fails
\* with an error other than ErrNoBids ends at once with that error wrapped:
\* RecordBidForItem is not called, no bid is returned and the Store is as it
\* was.
C30_StoreFailuresKeepTheirKind ==
    [][(/\ pc[Caller] # "done" /\ pc'[Caller] = "done"
        /\ call'[Caller].http.backend.svc = "BiddingService")
       => LET c == call'[Caller]
              propagated ==
                  /\ c.http.svcErr # Nil
                  /\ errorsIs(c.http.svcErr, c.http.dbErr)
                  /\ KindOf(c.http.svcErr) = KindOf(c.http.dbErr)
                  /\ \A k \in Sentinels :
                       errorsIs(c.http.dbErr, Sentinel(k))
                         => errorsIs(c.http.svcErr, Sentinel(k))
          IN  /\ c.http.dbErr # Nil => propagated /\ c.trace # <<>>
              /\ (/\ c.op = PostBids /\ c.http.bound
                  /\ c.http.backend.fault = "GetWinningBid")
                   => /\ pc[Caller] = "idle"
                      /\ c.http.dbErr = DbFailure
                      /\ ~errorsIs(c.http.dbErr, Sentinel(ErrNoBids))
                      /\ propagated
                      /\ c.trace = <<"GetWinningBid">>
                      /\ c.bid = ZeroBid /\ res'[Caller].bid = ZeroBid
                      /\ res'[Caller].body = "error"
                      /\ store' = store /\ log' = log /\ nextID' = nextID]_vars

\* C30 witness: a bid has been posted while the Store's GetWinningBid fails
\* with an error of no kind and a bid is recorded on the item: the service
\* returned the wrapped failure without calling RecordBidForItem, and the
\* item's bids are the one recorded before.
C30_Witness ==
    /\ Done(Caller, "POST /bids")
    /\ call[Caller].http.backend = [svc |-> "BiddingService", fault |-> "GetWinningBid",
                                    ret |-> Nil]
    /\ call[Caller].http.dbErr = DbFailure
    /\ errorsIs(call[Caller].http.svcErr, DbFailure)
    /\ call[Caller].trace = <<"GetWinningBid">>
    /\ Len(log) = 1
    /\ Get(bids, call[Caller].itemID, <<>>) = <<log[1].bid>>
    /\ call[Caller].amount > log[1].bid.Amount
    /\ res[Caller].status = 500

\* The service returned err for the Store's dbErr: nil for nil, and otherwise
\* the Store's error wrapped once.
Delegated(err, dbErr) ==
    IF dbErr = Nil
    THEN err = Nil
    ELSE /\ Len(err) = Len(dbErr) + 1
         /\ errorsIs(err, dbErr)
         /\ KindOf(err) = KindOf(dbErr)

\* The service rejected the call: ErrInvalidBid, and no Store method called.
RejectedUnasked(c) ==
    /\ KindOf(c.http.svcErr) = ErrInvalidBid
    /\ c.http.dbErr = Nil
    /\ c.trace = <<>>

\* C31: GetBidsForItem and GetWinningBid of the BiddingService reject the
\* empty item id, and GetItemsByUser the empty user id, with ErrInvalidBid and
\* without calling the Store; for any other id they call the Store's method
\* once and return its result, or its error wrapped.
C31_ReadsRejectEmptyElseDelegate ==
    [][(/\ pc[Caller] # "done" /\ pc'[Caller] = "done"
        /\ call'[Caller].http.backend.svc = "BiddingService")
       => LET c == call'[Caller]
              fault == c.http.backend.fault
              got == res'[Caller]
          IN  /\ c.op = GetBids =>
                   IF c.itemID = ""
                   THEN RejectedUnasked(c)
                   ELSE LET out == AuctionDB_GetBidsByItem(fault, repo, c.itemID)
                        IN  /\ c.trace = <<"GetBidsByItem">>
                            /\ c.http.dbErr = out.err
                            /\ Delegated(c.http.svcErr, out.err)
                            /\ out.err = Nil => got.list = out.bids
              /\ c.op = GetWinning =>
                   IF c.itemID = ""
                   THEN RejectedUnasked(c)
                   ELSE LET out == AuctionDB_GetWinningBid(fault, repo, c.itemID)
                        IN  /\ c.trace = <<"GetWinningBid">>
                            /\ c.http.dbErr = out.err
                            /\ Delegated(c.http.svcErr, out.err)
                            /\ c.bid = out.bid
              /\ c.op = GetUserItems =>
                   IF c.userID = ""
                   THEN RejectedUnasked(c)
                   ELSE LET out == AuctionDB_GetItemsByUser(fault, repo, c.userID)
                        IN  /\ c.trace = <<"GetItemsByUser">>
                            /\ c.http.dbErr = out.err
                            /\ Delegated(c.http.svcErr, out.err)
                            /\ out.err = Nil => got.list = out.items]_vars

\* C31 witness: with a bid recorded, the items of the empty user id have been
\* asked for: the service returned ErrInvalidBid and called no Store method.
C31_Witness ==
    /\ ServedByMain("GET /users/:user_id/items")
    /\ call[Caller].userID = ""
    /\ RejectedUnasked(call[Caller])
    /\ Len(log) > 0
    /\ res[Caller].status = 400

\* C32: AddItem(item) changes only the Item stored under item.ItemID, which it
\* inserts or overwrites: every other Item, every bid sequence (the overwritten
\* item's included) and every bidder's item list is as before.
C32_AddItemFrame ==
    [][\A p \in Procs :
         (pc[p] = "wcs" /\ call[p].op = "AddItem" /\ pc'[p] = "done") =>
           LET item == call[p].item
           IN  /\ DOMAIN items' = DOMAIN items \cup {item.ItemID}
               /\ items'[item.ItemID] = item
               /\ \A i \in DOMAIN items \ {item.ItemID} : items'[i] = items[i]
               /\ bids' = bids
               /\ userItems' = userItems]_vars

\* C32 witness: the seeded item has been overwritten after a bid was recorded
\* on it; the bid sequence is the one AddItem found and the bidder still has
\* the item.
C32_Witness ==
    \E p \in Procs :
      /\ Done(p, "AddItem")
      /\ call[p].item.ItemID = SeedItemID
      /\ items[SeedItemID] = call[p].item
      /\ call[p].item # SeedItem
      /\ Len(log) = 1
      /\ Get(bids, SeedItemID, <<>>) = <<log[1].bid>>
      /\ call[p].seen = <<log[1].bid>>
      /\ Get(userItems, log[1].bid.UserID, <<>>) = <<SeedItemID>>

\* The successful RecordBidForItem calls for item i so far, as positions of
\* the log.
RecordedFor(i) == {k \in 1..Len(log) : log[k].bid.ItemID = i}

\* C33: bids are never deduplicated.  The length of an item's sequence is the
\* number of RecordBidForItem calls for the item that returned nil; a bid
\* equal to one already in the sequence is appended like any other, and the
\* bidder's item list then has the item once.
C33_NoDeduplication ==
    /\ \A i \in ItemIDs : Len(Get(bids, i, <<>>)) = Cardinality(RecordedFor(i))
    /\ \A p \in Procs :
         (Done(p, "RecordBidForItem") /\ res[p].err = NoError) =>
           LET b == call[p].bid
               q == Get(bids, b.ItemID, <<>>)
           IN  /\ Cardinality({k \in 1..Len(q) : q[k] = b})
                    = Cardinality({k \in 1..Len(log) : log[k].bid = b})
               /\ Cardinality({k \in 1..Len(userItems[b.UserID]) :
                                 userItems[b.UserID][k] = b.ItemID}) = 1

\* C33 witness: the same bid (same id, item, bidder, amount and time) has been
\* recorded twice: the item's sequence holds it twice and the bidder's item
\* list holds the item once.
C33_Witness ==
    \E p \in Procs :
      /\ Done(p, "RecordBidForItem")
      /\ res[p].err = NoError
      /\ Len(log) = 2
      /\ log[1].bid = call[p].bid
      /\ log[2].bid = call[p].bid
      /\ Get(bids, call[p].bid.ItemID, <<>>) = <<call[p].bid, call[p].bid>>
      /\ Get(userItems, call[p].bid.UserID, <<>>) = <<call[p].bid.ItemID>>

\* Item i is in the item list of bidder u; the sequence of i has a bid by u.
InItemsOf(i, u) == i \in Elems(Get(userItems, u, <<>>))
HasBidBy(i, u) ==
    \E k \in 1..Len(Get(bids, i, <<>>)) : bids[i][k].UserID = u

\* C34: in every state in which some caller holds the read lock, and so can
\* read the maps, item i is in the item list of bidder u if and only if the
\* sequence of i has a bid by u: the state between RecordBidForItem's two
\* updates is never read.
C34_ReadersSeeConsistentMaps ==
    ReadersInside # {} =>
      \A i \in ItemIDs, u \in UserIDs : InItemsOf(i, u) <=> HasBidBy(i, u)

\* C34 witness: a caller holds the read lock while the other waits for the
\* write lock to record a bid, after a bid has been recorded.
C34_Witness ==
    \E p, q \in Procs :
      /\ pc[p] = "rcs"
      /\ pc[q] = "wwait"
      /\ call[q].op = "RecordBidForItem"
      /\ Len(log) > 0
      /\ HasBidBy(log[1].bid.ItemID, log[1].bid.UserID)
      /\ InItemsOf(log[1].bid.ItemID, log[1].bid.UserID)

\* C35: a bid accepted through PlaceBid has an amount strictly greater than
\* that of every bid that was in the item's sequence when the call's winner
\* query ran.  The sequence it was appended to starts with those bids; a bid
\* recorded before it with an amount >= its own was recorded after the query.
C35_GreaterThanAllSeen ==
    \A k \in 1..Len(log) :
      log[k].via = "PlaceBid" =>
        LET e == log[k]
            q == Get(bids, e.bid.ItemID, <<>>)
        IN  /\ \A j \in 1..Len(e.seen) : e.bid.Amount > e.seen[j].Amount
            /\ IsPrefix(e.seen, e.before)
            /\ IsPrefix(Append(e.before, e.bid), q)
            /\ \A j \in 1..Len(e.before) :
                 q[j].Amount >= e.bid.Amount => j > Len(e.seen)

\* C35 witness: two PlaceBid calls on an item without bids raced; the second
\* recorded, which queried the winner before the first was recorded, has a
\* strictly smaller amount than the first.
C35_Witness ==
    /\ Len(log) = 2
    /\ log[1].via = "PlaceBid" /\ log[2].via = "PlaceBid"
    /\ log[2].seen = <<>>
    /\ log[2].before = <<log[1].bid>>
    /\ log[1].bid.Amount > log[2].bid.Amount
    /\ Get(bids, log[2].bid.ItemID, <<>>) = <<log[1].bid, log[2].bid>>

\* The repository in the next state.
repoNext == [bids |-> bids', items |-> items', userItems |-> userItems']

\* C36: the winning amount of an item never decreases.  No step takes an item
\* that has a winner to a state in which GetWinningBid fails or returns a
\* smaller amount, so what a GetWinningBid call returned is at most what any
\* later call returns, and after a winner was returned ErrNoBids never is.
C36_WinningAmountMonotone ==
    /\ [][\A i \in ItemIDs :
            GetWinningBid(repo, i).err = NoError =>
              /\ GetWinningBid(repoNext, i).err = NoError
              /\ GetWinningBid(repoNext, i).bid.Amount >= GetWinningBid(repo, i).bid.Amount]_vars
    /\ [](\A p \in Procs :
            (Done(p, "GetWinningBid") /\ res[p].err = NoError) =>
              /\ GetWinningBid(repo, call[p].itemID).err = NoError
              /\ GetWinningBid(repo, call[p].itemID).bid.Amount >= res[p].bid.Amount)

\* C36 witness: a caller still holds the winner GetWinningBid returned, and
\* since then a bid of a greater amount has been recorded on the item: the
\* winning amount is now greater than the one returned.
C36_Witness ==
    \E p \in Procs :
      /\ Done(p, "GetWinningBid")
      /\ res[p].err = NoError
      /\ GetWinningBid(repo, call[p].itemID).bid.Amount > res[p].bid.Amount
      /\ Len(Get(bids, call[p].itemID, <<>>)) = 2

\* C37: if every bid was recorded through PlaceBid, every bid in the Store has
\* a strictly positive amount, a non-empty bidder id and a non-empty item id,
\* whatever the interleaving of the calls.
C37_PlacedBidsAreValid ==
    (\A k \in 1..Len(log) : log[k].via = "PlaceBid") =>
      \A i \in DOMAIN bids :
        \A k \in 1..Len(bids[i]) :
          /\ bids[i][k].Amount > 0
          /\ bids[i][k].UserID # ""
          /\ bids[i][k].ItemID # ""
          /\ bids[i][k].ItemID = i

\* C37 witness: two PlaceBid calls of the same amount raced on one item and
\* both were recorded; both bids are valid.
C37_Witness ==
    /\ Len(log) = 2
    /\ log[1].via = "PlaceBid" /\ log[2].via = "PlaceBid"
    /\ log[1].seen = <<>> /\ log[2].seen = <<>>
    /\ log[1].bid.Amount = log[2].bid.Amount
    /\ log[1].bid.Amount > 0
    /\ Get(bids, log[1].bid.ItemID, <<>>) = <<log[1].bid, log[2].bid>>

\* The read methods of the Store.
StoreReadOps == {"GetBidsByItem", "GetWinningBid", "GetItemsByUser"}

\* C38: the reads GetBidsByItem, GetWinningBid and GetItemsByUser change
\* nothing in the Store: no step of such a call, from the call to the return
\* of its result or error, changes the items, a bid sequence or an item list,
\* and a lookup that fails leaves the maps without an entry for its key.
C38_ReadsChangeNothing ==
    [][\A p \in Procs :
         (/\ pc'[p] # pc[p]
          /\ call[p].op \in StoreReadOps \/ call'[p].op \in StoreReadOps)
         => /\ store' = store
            /\ (pc[p] = "rcs" /\ res'[p].err # NoError) =>
                 IF call[p].op = "GetItemsByUser"
                 THEN call[p].userID \notin DOMAIN userItems'
                 ELSE call[p].itemID \notin DOMAIN bids']_vars

\* C38 witness: with a bid recorded on the other item, GetBidsByItem has
\* failed for an item without bids and GetItemsByUser for a bidder without
\* bids; the maps have no entry for either.
C38_Witness ==
    \E p, q \in Procs :
      /\ Done(p, "GetBidsByItem")
      /\ res[p].err = ErrNoBids
      /\ call[p].itemID \notin DOMAIN bids
      /\ Done(q, "GetItemsByUser")
      /\ res[q].err = ErrUserNoBids
      /\ call[q].userID \notin DOMAIN userItems
      /\ Len(log) = 1
      /\ DOMAIN bids = {log[1].bid.ItemID}
      /\ DOMAIN userItems = {log[1].bid.UserID}

====
